---- MODULE Spec2Model ----
(***************************************************************************)
(* VanTrack client: the ledger logic of MainApp (balance reducer, open     *)
(* debts, draft lifecycle, transaction deletion) against a remote store.   *)
(*                                                                         *)
(* Amounts are whole numbers of the smallest currency unit.  The remote    *)
(* store (REST backend) is not part of the client sources; its behaviour   *)
(* is taken from the data model of the specification (Srv* definitions).   *)
(* The chat message log (saveMessage) is not part of the modelled state.   *)
(***************************************************************************)
EXTENDS Integers, Sequences, FiniteSets, TLC

VARIABLES
    \* ---- remote store ----
    srvTxs,          \* transactions held by the remote store
    srvDrafts,       \* drafts held by the remote store, each with its status
    srvContacts,     \* contacts held by the remote store
    nextId,          \* next identifier the remote store hands out
    \* ---- MainApp state ----
    transactions,    \* useState<Transaction[]>
    pendingDrafts,   \* useState<DraftTransaction[]>
    contacts,        \* useState<{id, name, ...}[]>
    isLoading,       \* useState(true)
    isProcessing,    \* useState(false)
    balances,        \* useMemo over transactions
    openDebts,       \* useMemo over transactions
    ops,             \* invocations of async handlers that have not returned
    last,            \* the handler step that ran last (history)
    acts,            \* handlers the user has invoked so far in the session
    \* ---- balance reducer applied to arbitrary lists ----
    fTxs,            \* the list handed to the reducer
    fPc,             \* "input" | "done"
    fOut,            \* whole / half1 / half2 results of the reducer
    \* ---- CreditManagement applied to arbitrary props ----
    cdTxs,           \* the transactions prop
    cdContacts,      \* the contacts prop
    cdPc,            \* "input" | "done"
    cdOut,           \* the contactData memo
    \* ---- accounts that share one browser ----
    stores,          \* the ledger the remote store holds for each account
    localStorage,    \* window.localStorage of the browser
    user,            \* AuthContext: useState<UserResponse | null>
    hasInitialCash,  \* MainApp: useState(() => localStorage.getItem(...))
    showInitialCashSetup,  \* MainApp: useState(false)
    setupBy,         \* accounts that completed or skipped the setup (history)
    \* ---- useWakeWord ----
    enabled,         \* the enabled option of the current render
    isSupported,     \* useState(false), set by the support effect
    isListening,     \* useState(false)
    isActiveRef,     \* useRef(false)
    recognitionRef,  \* useRef<SpeechRecognition | null>
    restartTimeoutRef,  \* useRef<Timeout | null>
    recognitions,    \* the SpeechRecognition objects created so far
    timers,          \* the setTimeout callbacks that have not run
    nextTimer        \* next timer identifier setTimeout returns

vars == <<srvTxs, srvDrafts, srvContacts, nextId, transactions, pendingDrafts,
          contacts, isLoading,
          isProcessing, balances, openDebts, ops, last, acts, fTxs, fPc,
          fOut, cdTxs, cdContacts, cdPc, cdOut, stores, localStorage, user,
          hasInitialCash, showInitialCashSetup, setupBy, enabled,
          isSupported, isListening, isActiveRef, recognitionRef,
          restartTimeoutRef, recognitions, timers, nextTimer>>

contactVars == <<srvContacts, contacts>>

appVars == <<srvTxs, srvDrafts, srvContacts, nextId, transactions,
             pendingDrafts, contacts, isLoading,
             isProcessing, balances, openDebts, ops, last, acts>>

foldVars == <<fTxs, fPc, fOut>>

cdVars == <<cdTxs, cdContacts, cdPc, cdOut>>

userVars == <<stores, localStorage, user, hasInitialCash,
              showInitialCashSetup, setupBy>>

wakeVars == <<enabled, isSupported, isListening, isActiveRef, recognitionRef,
              restartTimeoutRef, recognitions, timers, nextTimer>>

----------------------------------------------------------------------------
(* Bounds *)

MaxAmount == 2      \* largest amount of a transaction or draft
MaxLen == 2         \* longest list handed to the reducer in FoldSpec
MaxActs == 2        \* handlers the user invokes in all
MaxContacts == 2     \* longest lists handed to CreditManagement
MaxOps == 2         \* handler invocations in flight at once
MaxUsers == 2       \* accounts that use the same browser
MaxRecs == 3        \* SpeechRecognition objects created by useWakeWord

----------------------------------------------------------------------------
(* Values *)

Null == -101        \* JSON null in an API response
Undefined == -102   \* an absent optional field of a client record
NaN == -103         \* the number parseFloat returns for text that is no number

TransactionType ==
    {"expense", "income", "transfer", "credit_receivable", "credit_payable",
     "loan_receivable", "loan_payable", "payment_received", "payment_made"}

AccountType == {"cash", "bank"}

DebtTypes ==
    {"credit_receivable", "credit_payable", "loan_receivable", "loan_payable"}

PaymentTypes == {"payment_received", "payment_made"}

Max(a, b) == IF a >= b THEN a ELSE b

\* x || undefined, for numbers and identifiers: null and 0 are falsy
OrUndefined(v) == IF v = Null \/ v = 0 THEN Undefined ELSE v

\* x || undefined, for strings: null and '' are falsy
OrUndefinedStr(s) == IF s = "null" \/ s = "" THEN "undefined" ELSE s

\* a ?? b
\* s || ''
OrEmpty(s) == IF s = "null" \/ s = "" THEN "" ELSE s

Coalesce(v, d) == IF v = Undefined \/ v = Null THEN d ELSE v

----------------------------------------------------------------------------
(* Balance reducer: transactions.reduce((acc, tx) => ..., {cash:0, ...}) *)

InitialValueCarried == fOut.whole

InitialValue == [cash |-> 0, bank |-> 0, credit |-> 0, loan |-> 0]

ApplyAssign(acc, tx) ==
    LET amt == tx.amount
        acct == tx.account
    IN CASE tx.type = "income" -> [acc EXCEPT ![acct] = amt]
         [] tx.type = "expense" -> [acc EXCEPT ![acct] = @ - amt]
         [] tx.type = "credit_receivable" -> [acc EXCEPT !.credit = @ + amt]
         [] tx.type = "credit_payable" -> [acc EXCEPT !.loan = @ + amt]
         [] tx.type = "loan_receivable" ->
                [acc EXCEPT ![acct] = @ - amt, !.credit = @ + amt]
         [] tx.type = "loan_payable" ->
                [acc EXCEPT ![acct] = @ + amt, !.loan = @ + amt]
         [] tx.type = "payment_received" ->
                [acc EXCEPT ![acct] = @ + amt, !.credit = @ - amt]
         [] tx.type = "payment_made" ->
                [acc EXCEPT ![acct] = @ - amt, !.loan = @ - amt]
         [] tx.type = "transfer" -> [acc EXCEPT ![acct] = @ - amt]
         [] OTHER -> acc

ApplyNoTransfer(acc, tx) ==
    LET amt == tx.amount
        acct == tx.account
    IN CASE tx.type = "income" -> [acc EXCEPT ![acct] = @ + amt]
         [] tx.type = "expense" -> [acc EXCEPT ![acct] = @ - amt]
         [] tx.type = "credit_receivable" -> [acc EXCEPT !.credit = @ + amt]
         [] tx.type = "credit_payable" -> [acc EXCEPT !.loan = @ + amt]
         [] tx.type = "loan_receivable" ->
                [acc EXCEPT ![acct] = @ - amt, !.credit = @ + amt]
         [] tx.type = "loan_payable" ->
                [acc EXCEPT ![acct] = @ + amt, !.loan = @ + amt]
         [] tx.type = "payment_received" ->
                [acc EXCEPT ![acct] = @ + amt, !.credit = @ - amt]
         [] tx.type = "payment_made" ->
                [acc EXCEPT ![acct] = @ - amt, !.loan = @ - amt]
         [] OTHER -> acc

\* the body of the reducer callback: switch (tx.type) without a default
Apply(acc, tx) ==
    LET amt == tx.amount
        acct == tx.account
    IN CASE tx.type = "income" -> [acc EXCEPT ![acct] = @ + amt]
         [] tx.type = "expense" -> [acc EXCEPT ![acct] = @ - amt]
         [] tx.type = "credit_receivable" -> [acc EXCEPT !.credit = @ + amt]
         [] tx.type = "credit_payable" -> [acc EXCEPT !.loan = @ + amt]
         [] tx.type = "loan_receivable" ->
                [acc EXCEPT ![acct] = @ - amt, !.credit = @ + amt]
         [] tx.type = "loan_payable" ->
                [acc EXCEPT ![acct] = @ + amt, !.loan = @ + amt]
         [] tx.type = "payment_received" ->
                [acc EXCEPT ![acct] = @ + amt, !.credit = @ - amt]
         [] tx.type = "payment_made" ->
                [acc EXCEPT ![acct] = @ - amt, !.loan = @ - amt]
         [] tx.type = "transfer" -> [acc EXCEPT ![acct] = @ - amt]
         [] OTHER -> acc

RECURSIVE Reduce(_, _)
Reduce(txs, acc) ==
    IF txs = <<>> THEN acc ELSE Reduce(Tail(txs), Apply(acc, Head(txs)))

\* balances.cash + balances.bank + balances.credit - balances.loan
NetWorth(b) == b.cash + b.bank + b.credit - b.loan

\* transactions.filter(t => [debt types].includes(t.type) && t.status !== 'settled')
OpenDebts(txs) ==
    SelectSeq(txs, LAMBDA t : t.type \in DebtTypes /\ t.status # "settled")

----------------------------------------------------------------------------
(* The reducer on arbitrary lists (FoldSpec) *)

\* a debt carries a status; the other types have none
FoldTx ==
    {x \in [type : TransactionType, account : AccountType,
            amount : 1..MaxAmount, status : {"open", "settled", "undefined"}] :
        (x.type \in DebtTypes) = (x.status # "undefined")}

FoldLists == UNION {[1..n -> FoldTx] : n \in 0..MaxLen}

\* the sub-list of txs at the positions in keep, in list order
RECURSIVE SubList(_, _, _)
SubList(txs, keep, i) ==
    IF i > Len(txs) THEN <<>>
    ELSE (IF i \in keep THEN <<txs[i]>> ELSE <<>>) \o SubList(txs, keep, i + 1)

Reverse(txs) == [i \in 1..Len(txs) |-> txs[Len(txs) + 1 - i]]

FoldInit ==
    /\ fTxs \in FoldLists
    /\ fPc = "input"
    /\ fOut = [whole |-> [cash |-> 0, bank |-> 0, credit |-> 0, loan |-> 0],
               open |-> <<>>, splits |-> {},
               reversed |-> [cash |-> 0, bank |-> 0, credit |-> 0, loan |-> 0],
               again |-> [cash |-> 0, bank |-> 0, credit |-> 0, loan |-> 0],
               openAgain |-> <<>>]

\* first derivation: the balances and open debts of the list, the balances
\* of the two halves of every split of it, and of the list reversed
FoldRun ==
    /\ fPc = "input"
    /\ fPc' = "done"
    /\ fOut' = [fOut EXCEPT
          !.whole = Reduce(fTxs, InitialValue),
          !.open = OpenDebts(fTxs),
          !.splits =
              {[keep |-> keep,
                half1 |-> Reduce(SubList(fTxs, keep, 1), InitialValue),
                half2 |-> Reduce(SubList(fTxs, (1..Len(fTxs)) \ keep, 1),
                                 InitialValue)] :
                  keep \in SUBSET (1..Len(fTxs))},
          !.reversed = Reduce(Reverse(fTxs), InitialValue)]
    /\ UNCHANGED <<fTxs, appVars, cdVars, userVars, wakeVars>>

\* second derivation from the same list (a render whose memo is recomputed)
FoldAgain ==
    /\ fPc = "done"
    /\ fPc' = "again"
    /\ fOut' = [fOut EXCEPT !.again = Reduce(fTxs, InitialValue),
                            !.openAgain = OpenDebts(fTxs)]
    /\ UNCHANGED <<fTxs, appVars, cdVars, userVars, wakeVars>>

----------------------------------------------------------------------------
(* Remote store: lists, draft confirmation, discard, update and deletion   *)

RECURSIVE SumAmounts(_)
SumAmounts(txs) ==
    IF txs = <<>> THEN 0 ELSE Head(txs).amount + SumAmounts(Tail(txs))

\* the payments of a list that settle the transaction with identifier id
LinkedPayments(txs, id) ==
    SelectSeq(txs, LAMBDA p : p.type \in PaymentTypes /\ p.linked = id)

SrvRemaining(d, txs) ==
    Max(0, d.amount - SumAmounts(LinkedPayments(txs, d.id)))

SrvStatus(d, txs) ==
    LET r == SrvRemaining(d, txs)
    IN IF r = 0 THEN "settled" ELSE IF r < d.amount THEN "partial" ELSE "open"

\* TransactionResponse of the stored transaction tx
SrvTransactionResponse(tx, txs) ==
    [id |-> tx.id, type |-> tx.type, account |-> tx.account,
     amount |-> tx.amount, linked_transaction_id |-> tx.linked,
     category |-> tx.category, date |-> tx.date,
     remaining_amount |->
         IF tx.type \in DebtTypes THEN SrvRemaining(tx, txs) ELSE Null,
     status |-> IF tx.type \in DebtTypes THEN SrvStatus(tx, txs) ELSE "null"]

\* GET /transactions
SrvListTransactions ==
    [i \in 1..Len(srvTxs) |-> SrvTransactionResponse(srvTxs[i], srvTxs)]

\* DraftResponse of the stored draft d
SrvDraftResponse(d) ==
    [id |-> d.id, type |-> d.type, account |-> d.account, amount |-> d.amount,
     linked_transaction_id |-> d.linked, status |-> d.status]

\* GET /drafts?status_filter=pending
SrvListDrafts ==
    LET pend == SelectSeq(srvDrafts, LAMBDA d : d.status = "pending")
    IN [i \in 1..Len(pend) |-> SrvDraftResponse(pend[i])]

SrvIsPending(id) ==
    \E i \in DOMAIN srvDrafts :
        srvDrafts[i].id = id /\ srvDrafts[i].status = "pending"

SrvDraft(id) == srvDrafts[CHOOSE i \in DOMAIN srvDrafts : srvDrafts[i].id = id]

SrvSetDraft(id, d) ==
    [i \in DOMAIN srvDrafts |->
        IF srvDrafts[i].id = id THEN d ELSE srvDrafts[i]]

----------------------------------------------------------------------------
(* Mapping API records into client records *)

\* mapApiTransaction
mapApiTransaction(tx) ==
    [id |-> tx.id,
     amount |-> tx.amount,
     type |-> tx.type,
     account |-> tx.account,
     date |-> tx.date,
     category |-> OrEmpty(tx.category),
     linkedTransactionId |-> OrUndefined(tx.linked_transaction_id),
     remainingAmount |-> OrUndefined(tx.remaining_amount),
     status |-> OrUndefinedStr(tx.status)]

\* mapApiDraft
mapApiDraft(d) ==
    [id |-> d.id,
     amount |-> d.amount,
     type |-> d.type,
     account |-> d.account,
     linkedTransactionId |-> OrUndefined(d.linked_transaction_id),
     actionStatus |-> "pending"]

\* list.map(mapApiTransaction)
MapTransactions(list) == [i \in 1..Len(list) |-> mapApiTransaction(list[i])]

\* mapApiContact
mapApiContact(c) == [id |-> c.id, name |-> c.name]

\* list.map(mapApiContact)
MapContacts(list) == [i \in 1..Len(list) |-> mapApiContact(list[i])]

\* list.map(mapApiDraft)
MapDrafts(list) == [i \in 1..Len(list) |-> mapApiDraft(list[i])]

\* tx.remainingAmount ?? tx.amount
RemainingUsed(t) == Coalesce(t.remainingAmount, t.amount)

----------------------------------------------------------------------------
(* LedgerView: the views derived from the transactions prop *)

\* transactions.filter(t => [the four debt types].includes(t.type))
debtTxs(txs) == SelectSeq(txs, LAMBDA t : t.type \in DebtTypes)

\* transactions.filter(t => ['payment_received', 'payment_made'].includes(t.type))
paymentTxs(txs) == SelectSeq(txs, LAMBDA t : t.type \in PaymentTypes)

RECURSIVE totalsNetOfPayments(_)
totalsNetOfPayments(txs) ==
    IF txs = <<>> THEN [receivable |-> 0, payable |-> 0]
    ELSE LET tx == Head(txs)
             acc == totalsNetOfPayments(Tail(txs))
             remaining == RemainingUsed(tx)
         IN CASE tx.type \in {"credit_receivable", "loan_receivable"} ->
                     [acc EXCEPT !.receivable = @ + remaining]
              [] tx.type \in {"credit_payable", "loan_payable"} ->
                     [acc EXCEPT !.payable = @ + remaining]
              [] tx.type = "payment_received" ->
                     [acc EXCEPT !.receivable = @ - tx.amount]
              [] tx.type = "payment_made" ->
                     [acc EXCEPT !.payable = @ - tx.amount]
              [] OTHER -> acc

\* debtTxs.reduce(..., {receivable: 0, payable: 0}), given the whole list
RECURSIVE totals(_)
totals(txs) ==
    IF txs = <<>> THEN [receivable |-> 0, payable |-> 0]
    ELSE LET tx == Head(txs)
             acc == totals(Tail(txs))
             remaining == RemainingUsed(tx)
         IN CASE tx.type \in {"credit_receivable", "loan_receivable"} ->
                     [acc EXCEPT !.receivable = @ + remaining]
              [] tx.type \in {"credit_payable", "loan_payable"} ->
                     [acc EXCEPT !.payable = @ + remaining]
              [] OTHER -> acc

\* paymentTxs.filter(p => p.linkedTransactionId === txId)
getLinkedPayments(txs, txId) ==
    SelectSeq(paymentTxs(txs), LAMBDA p : p.linkedTransactionId = txId)

----------------------------------------------------------------------------
(* CreditManagement: the contactData memo *)

\* String.prototype.toLowerCase on the names used here
toLowerCase(str) ==
    CASE str = "Ann" -> "ann"
      [] str = "ANN" -> "ann"
      [] str = "Bob" -> "bob"
      [] OTHER -> str

\* a string used as a condition: undefined and '' are falsy
Truthy(str) == str # "undefined" /\ str # ""

\* transactions.filter(t => [debt and payment types].includes(t.type)
\*                          || t.contact || t.contactId)
debtRelatedTxs(txs) ==
    SelectSeq(txs, LAMBDA t : \/ t.type \in DebtTypes \cup PaymentTypes
                              \/ Truthy(t.contact)
                              \/ t.contactId # Undefined)

\* contacts.find(...)?.id, hits being the positions of the contacts the
\* callback accepts
FindId(cs, hits) ==
    IF hits = {} THEN Undefined
    ELSE cs[CHOOSE i \in hits : \A j \in hits : i <= j].id

targetIdExactName(t, cs) ==
    IF t.contactId # Undefined THEN t.contactId
    ELSE FindId(cs, {i \in DOMAIN cs :
                        Truthy(t.contact) /\ cs[i].name = t.contact})

\* t.contactId || contacts.find(c => c.name.toLowerCase() ===
\*                                    t.contact?.toLowerCase())?.id
targetId(t, cs) ==
    IF t.contactId # Undefined THEN t.contactId
    ELSE FindId(cs, {i \in DOMAIN cs :
                        /\ t.contact # "undefined"
                        /\ toLowerCase(cs[i].name) = toLowerCase(t.contact)})

NoData == [receivable |-> 0, payable |-> 0, txs |-> <<>>]

\* debtRelatedTxs.forEach(t => {...}) on the map built so far
RECURSIVE contactDataEach(_, _, _)
contactDataEach(txs, cs, map) ==
    IF txs = <<>> THEN map
    ELSE LET t == Head(txs)
             id == targetId(t, cs)
             remaining == RemainingUsed(t)
         IN IF id = Undefined THEN contactDataEach(Tail(txs), cs, map)
            ELSE LET m == IF id \in DOMAIN map THEN map
                          ELSE map @@ (id :> NoData)
                 IN contactDataEach(Tail(txs), cs,
                      [m EXCEPT ![id] =
                         [receivable |->
                              IF t.type \in {"credit_receivable",
                                             "loan_receivable"}
                              THEN @.receivable + remaining ELSE @.receivable,
                          payable |->
                              IF t.type \in {"credit_payable", "loan_payable"}
                              THEN @.payable + remaining ELSE @.payable,
                          txs |-> Append(@.txs, t)]])

\* the contactData memo: one entry per contact, then the transactions
contactData(txs, cs) ==
    contactDataEach(debtRelatedTxs(txs), cs,
                    [id \in {cs[i].id : i \in DOMAIN cs} |-> NoData])

\* the props CreditManagement is rendered with here
CdNames == {"ann", "Bob"}

CdContactLists ==
    UNION {{[i \in 1..n |-> [id |-> i, name |-> f[i]]] : f \in [1..n -> CdNames]} :
              n \in 0..MaxContacts}

\* a contactId that no contact has
GoneContactId == 9

CdTx ==
    [type : {"credit_receivable", "credit_payable", "expense"},
     contactId : {Undefined, 1, GoneContactId},
     contact : {"undefined", "ANN", "carl"}]

CdTxLists ==
    UNION {{[i \in 1..n |->
               [id |-> i, type |-> f[i].type, account |-> "cash",
                amount |-> MaxAmount,
                remainingAmount |->
                    IF f[i].type = "credit_receivable" THEN 1 ELSE Undefined,
                contactId |-> f[i].contactId, contact |-> f[i].contact]] :
              f \in [1..n -> CdTx]} : n \in 0..MaxContacts}

CdInit ==
    /\ cdTxs \in CdTxLists
    /\ cdContacts \in CdContactLists
    /\ cdPc = "input"
    /\ cdOut = <<>>

\* a render of CreditManagement: the memo is computed from the props
ContactDataRun ==
    /\ cdPc = "input"
    /\ cdPc' = "done"
    /\ cdOut' = contactData(cdTxs, cdContacts)
    /\ UNCHANGED <<cdTxs, cdContacts, appVars, foldVars, userVars, wakeVars>>

----------------------------------------------------------------------------
(* Handler invocations in flight *)

NoDraft ==
    [id |-> 0, amount |-> 0, type |-> "none", account |-> "none",
     linkedTransactionId |-> Undefined, actionStatus |-> "none"]

NoResp == [got |-> FALSE, list |-> <<>>]

\* Partial<Transaction> with no field set
NoUpdate ==
    [amount |-> Undefined, type |-> "undefined",
     linkedTransactionId |-> Undefined]

\* an invocation: the handler, where it stands, and what its closure holds
Op(kind, pc, id, draft) ==
    [kind |-> kind, pc |-> pc, id |-> id, draft |-> draft,
     upd |-> NoUpdate, name |-> "", actualCash |-> 0, offer |-> {},
     saved |-> <<>>,
     txResp |-> NoResp, contactsResp |-> NoResp, draftsResp |-> NoResp]

Slots == DOMAIN ops

\* a handler is invoked
Invoke(op) ==
    /\ Len(ops) < MaxOps
    /\ acts < MaxActs
    /\ ops' = Append(ops, op)
    /\ acts' = acts + 1

\* the invocation at position s returns
Finish(s) == [k \in 1..(Len(ops) - 1) |-> IF k < s THEN ops[k] ELSE ops[k + 1]]

Did(act, id) == [act |-> act, id |-> id, same |-> FALSE]

\* setTransactions(list) followed by the render that recomputes the memos
SetTransactionsStored(list) ==
    /\ transactions' = list
    /\ balances' = balances
    /\ openDebts' = OpenDebts(list)

SetTransactions(list) ==
    /\ transactions' = list
    /\ balances' = Reduce(list, InitialValue)
    /\ openDebts' = OpenDebts(list)

----------------------------------------------------------------------------
(* fetchData *)

\* the remote store answers transactionsApi.list
FetchServeTransactions(s) ==
    /\ ops[s].pc = "fetching"
    /\ ~ops[s].txResp.got
    /\ ops' = [ops EXCEPT ![s].txResp =
                  [got |-> TRUE, list |-> SrvListTransactions]]
    /\ UNCHANGED <<foldVars, cdVars, wakeVars, userVars, contactVars, acts, last, srvTxs, srvDrafts, nextId, transactions, pendingDrafts,
                   isLoading, isProcessing, balances, openDebts>>

\* the remote store answers contactsApi.list
FetchServeContacts(s) ==
    /\ ops[s].pc = "fetching"
    /\ ~ops[s].contactsResp.got
    /\ ops' = [ops EXCEPT ![s].contactsResp =
                  [got |-> TRUE, list |-> srvContacts]]
    /\ UNCHANGED <<foldVars, cdVars, wakeVars, userVars, contactVars, acts, last, srvTxs, srvDrafts, nextId,
                   transactions, pendingDrafts, isLoading, isProcessing,
                   balances, openDebts>>

\* the remote store answers draftsApi.list('pending')
FetchServeDrafts(s) ==
    /\ ops[s].pc = "fetching"
    /\ ~ops[s].draftsResp.got
    /\ ops' = [ops EXCEPT ![s].draftsResp =
                  [got |-> TRUE, list |-> SrvListDrafts]]
    /\ UNCHANGED <<foldVars, cdVars, wakeVars, userVars, contactVars, acts, last, srvTxs, srvDrafts, nextId, transactions, pendingDrafts,
                   isLoading, isProcessing, balances, openDebts>>

\* Promise.all resolved: the four setters, then finally setIsLoading(false)
FetchDone(s) ==
    /\ ops[s].pc = "fetching"
    /\ ops[s].txResp.got
    /\ ops[s].draftsResp.got
    /\ ops[s].contactsResp.got
    /\ SetTransactions(MapTransactions(ops[s].txResp.list))
    /\ contacts' = MapContacts(ops[s].contactsResp.list)
    /\ pendingDrafts' = MapDrafts(ops[s].draftsResp.list)
    /\ isLoading' = FALSE
    /\ ops' = Finish(s)
    /\ last' = [act |-> "FetchDone", id |-> ops[s].id,
                same |-> (transactions' = transactions)]
    /\ UNCHANGED <<foldVars, cdVars, wakeVars, userVars, srvContacts, acts, srvTxs, srvDrafts, nextId, isProcessing>>

\* one of the list requests rejected: catch logs, finally setIsLoading(false)
FetchFail(s) ==
    /\ ops[s].pc = "fetching"
    /\ isLoading' = FALSE
    /\ ops' = Finish(s)
    /\ UNCHANGED <<foldVars, cdVars, wakeVars, userVars, contactVars, acts, last, srvTxs, srvDrafts, nextId, transactions, pendingDrafts,
                   isProcessing, balances, openDebts>>

\* a request was sent and is lost before the remote store handles it
RequestFail(s) ==
    /\ ops[s].pc = "request"
    /\ ops' = [ops EXCEPT ![s].pc = "error"]
    /\ UNCHANGED <<foldVars, cdVars, wakeVars, userVars, contactVars, acts, last, srvTxs, srvDrafts, nextId, transactions, pendingDrafts,
                   isLoading, isProcessing, balances, openDebts>>

----------------------------------------------------------------------------
(* handleSendMessage *)

\* amounts entered in messages and in the Edit Entry panel: the smallest and
\* the largest
Amounts == {1, MaxAmount}

\* types the extractor proposes here; "refund" is outside TransactionType
ParsedTypes == {"credit_receivable", "payment_received", "refund"}

\* ParsedTransaction records the extractor may return, given the open debts
\* it was sent
Proposals(offer) ==
    {[type |-> t, account |-> "cash", amount |-> a, linked |-> l] :
        t \in ParsedTypes, a \in Amounts, l \in offer \cup {Null}}

\* handleSubmit guard, saveMessage('user'), setIsProcessing(true), aiApi.parse
SendMessageStart ==
    /\ ~isLoading
    /\ ~isProcessing
    /\ Invoke([Op("send", "request", 0, NoDraft) EXCEPT
                  !.offer = {openDebts[i].id : i \in DOMAIN openDebts}])
    /\ isProcessing' = TRUE
    /\ UNCHANGED <<foldVars, cdVars, wakeVars, userVars, contactVars, last, srvTxs, srvDrafts, nextId, transactions, pendingDrafts,
                   isLoading, balances, openDebts>>

\* the extractor returns one entry; draftsApi.createBatch stores it as pending
SendMessageServe(s, p) ==
    /\ ops[s].kind = "send"
    /\ ops[s].pc = "request"
    /\ p.linked # Null => p.type \in PaymentTypes
    /\ LET d == [id |-> nextId, type |-> p.type, account |-> p.account,
                 amount |-> p.amount, linked |-> p.linked,
                 status |-> "pending"]
       IN /\ srvDrafts' = Append(srvDrafts, d)
          /\ ops' = [ops EXCEPT ![s].pc = "ok",
                                ![s].saved = <<SrvDraftResponse(d)>>]
    /\ nextId' = nextId + 1
    /\ UNCHANGED <<foldVars, cdVars, wakeVars, userVars, contactVars, acts, last, srvTxs, transactions, pendingDrafts, isLoading,
                   isProcessing, balances, openDebts>>

\* the extractor returns no entry (a plain answer): nothing is created
SendMessageAnswer(s) ==
    /\ ops[s].kind = "send"
    /\ ops[s].pc = "request"
    /\ isProcessing' = FALSE
    /\ ops' = Finish(s)
    /\ UNCHANGED <<foldVars, cdVars, wakeVars, userVars, contactVars, acts, last, srvTxs, srvDrafts, nextId, transactions, pendingDrafts,
                   isLoading, balances, openDebts>>

\* setPendingDrafts(prev => [...prev, ...savedDrafts.map(mapApiDraft)])
SendMessageDoneRecords(s) ==
    /\ ops[s].kind = "send"
    /\ ops[s].pc = "ok"
    /\ pendingDrafts' = pendingDrafts \o MapDrafts(ops[s].saved)
    /\ SetTransactions(
          [k \in 1..Len(ops[s].saved) |->
              [id |-> ops[s].saved[k].id, amount |-> ops[s].saved[k].amount,
               type |-> ops[s].saved[k].type,
               account |-> ops[s].saved[k].account,
               linkedTransactionId |-> Undefined,
               remainingAmount |-> Undefined,
               status |-> "undefined"]] \o transactions)
    /\ isProcessing' = FALSE
    /\ ops' = Finish(s)
    /\ last' = Did("SendMessageDone", ops[s].saved[1].id)
    /\ UNCHANGED <<foldVars, cdVars, wakeVars, userVars, contactVars, acts, srvTxs, srvDrafts, nextId, isLoading>>

SendMessageDone(s) ==
    /\ ops[s].kind = "send"
    /\ ops[s].pc = "ok"
    /\ pendingDrafts' = pendingDrafts \o MapDrafts(ops[s].saved)
    /\ isProcessing' = FALSE
    /\ ops' = Finish(s)
    /\ last' = Did("SendMessageDone", ops[s].saved[1].id)
    /\ UNCHANGED <<foldVars, cdVars, wakeVars, userVars, contactVars, acts, srvTxs, srvDrafts, nextId, transactions, isLoading,
                   balances, openDebts>>

\* catch: saveMessage('assistant', error text); finally setIsProcessing(false)
SendMessageFailed(s) ==
    /\ ops[s].kind = "send"
    /\ ops[s].pc = "error"
    /\ isProcessing' = FALSE
    /\ ops' = Finish(s)
    /\ UNCHANGED <<foldVars, cdVars, wakeVars, userVars, contactVars, acts, last, srvTxs, srvDrafts, nextId, transactions, pendingDrafts,
                   isLoading, balances, openDebts>>

----------------------------------------------------------------------------
(* confirmDraft *)

\* const draft = pendingDrafts.find(...); if (!draft) return; draftsApi.confirm
ConfirmDraftStart(i) ==
    /\ ~isLoading
    /\ i \in DOMAIN pendingDrafts
    /\ Invoke(Op("confirm", "request", pendingDrafts[i].id, pendingDrafts[i]))
    /\ UNCHANGED <<foldVars, cdVars, wakeVars, userVars, contactVars, last, srvTxs, srvDrafts, nextId, transactions, pendingDrafts,
                   isLoading, isProcessing, balances, openDebts>>

\* POST /drafts/{id}/confirm: a pending draft becomes confirmed and one
\* transaction with its field values is created; otherwise a conflict
ConfirmServe(s) ==
    /\ ops[s].kind = "confirm"
    /\ ops[s].pc = "request"
    /\ IF SrvIsPending(ops[s].id)
       THEN /\ LET d == SrvDraft(ops[s].id)
               IN /\ srvDrafts' =
                        SrvSetDraft(d.id, [d EXCEPT !.status = "confirmed"])
                  /\ srvTxs' = Append(srvTxs,
                        [id |-> nextId, type |-> d.type,
                         account |-> d.account, amount |-> d.amount,
                         linked |-> d.linked,
                         category |-> "sales", date |-> "today"])
            /\ nextId' = nextId + 1
            /\ ops' = [ops EXCEPT
                  ![s].pc = "ok",
                  ![s].saved = <<SrvTransactionResponse(
                                     srvTxs'[Len(srvTxs')], srvTxs')>>]
       ELSE /\ ops' = [ops EXCEPT ![s].pc = "conflict"]
            /\ UNCHANGED <<srvTxs, srvDrafts, nextId>>
    /\ UNCHANGED <<foldVars, cdVars, wakeVars, userVars, contactVars, acts, last, transactions, pendingDrafts, isLoading, isProcessing,
                   balances, openDebts>>

ConfirmDraftFetchCreates(s) ==
    /\ ops[s].kind = "confirm"
    /\ ops[s].pc = "ok"
    /\ isLoading' = TRUE
    /\ ops' = [ops EXCEPT ![s].pc = "fetching"]
    /\ srvTxs' = Append(srvTxs,
          [id |-> nextId, type |-> ops[s].draft.type,
           account |-> ops[s].draft.account, amount |-> ops[s].draft.amount,
           linked |-> Null, category |-> "sales", date |-> "today"])
    /\ nextId' = nextId + 1
    /\ UNCHANGED <<foldVars, cdVars, wakeVars, userVars, contactVars, acts, last, srvDrafts, transactions, pendingDrafts,
                   isProcessing, balances, openDebts>>

\* await fetchData(): setIsLoading(true) and the list requests go out
ConfirmDraftFetch(s) ==
    /\ ops[s].kind = "confirm"
    /\ ops[s].pc = "ok"
    /\ isLoading' = TRUE
    /\ ops' = [ops EXCEPT ![s].pc = "fetching"]
    /\ UNCHANGED <<foldVars, cdVars, wakeVars, userVars, contactVars, acts, last, srvTxs, srvDrafts, nextId, transactions, pendingDrafts,
                   isProcessing, balances, openDebts>>

\* catch: saveMessage('assistant', 'Failed to sync record')
ConfirmDraftFailed(s) ==
    /\ ops[s].kind = "confirm"
    /\ ops[s].pc \in {"error", "conflict"}
    /\ ops' = Finish(s)
    /\ UNCHANGED <<foldVars, cdVars, wakeVars, userVars, contactVars, acts, last, srvTxs, srvDrafts, nextId, transactions, pendingDrafts,
                   isLoading, isProcessing, balances, openDebts>>

----------------------------------------------------------------------------
(* discardDraft *)

DiscardDraftStart(i) ==
    /\ ~isLoading
    /\ i \in DOMAIN pendingDrafts
    /\ Invoke(Op("discard", "request", pendingDrafts[i].id, pendingDrafts[i]))
    /\ UNCHANGED <<foldVars, cdVars, wakeVars, userVars, contactVars, last, srvTxs, srvDrafts, nextId, transactions, pendingDrafts,
                   isLoading, isProcessing, balances, openDebts>>

\* POST /drafts/{id}/discard: a pending draft becomes discarded; otherwise a
\* conflict
DiscardServe(s) ==
    /\ ops[s].kind = "discard"
    /\ ops[s].pc = "request"
    /\ IF SrvIsPending(ops[s].id)
       THEN /\ srvDrafts' = SrvSetDraft(ops[s].id,
                   [SrvDraft(ops[s].id) EXCEPT !.status = "discarded"])
            /\ ops' = [ops EXCEPT ![s].pc = "ok"]
       ELSE /\ ops' = [ops EXCEPT ![s].pc = "conflict"]
            /\ UNCHANGED srvDrafts
    /\ UNCHANGED <<foldVars, cdVars, wakeVars, userVars, contactVars, acts, last, srvTxs, nextId, transactions, pendingDrafts, isLoading,
                   isProcessing, balances, openDebts>>

\* setPendingDrafts(prev => prev.filter(d => d.id !== draftId))
DiscardDraftDone(s) ==
    /\ ops[s].kind = "discard"
    /\ ops[s].pc = "ok"
    /\ pendingDrafts' = SelectSeq(pendingDrafts, LAMBDA d : d.id # ops[s].id)
    /\ ops' = Finish(s)
    /\ last' = Did("DiscardDraftDone", ops[s].id)
    /\ UNCHANGED <<foldVars, cdVars, wakeVars, userVars, contactVars, acts, srvTxs, srvDrafts, nextId, transactions, isLoading,
                   isProcessing, balances, openDebts>>

DiscardDraftFailedRemoves(s) ==
    /\ ops[s].kind = "discard"
    /\ ops[s].pc \in {"error", "conflict"}
    /\ pendingDrafts' = SelectSeq(pendingDrafts, LAMBDA d : d.id # ops[s].id)
    /\ ops' = Finish(s)
    /\ UNCHANGED <<foldVars, cdVars, wakeVars, userVars, contactVars, acts, last, srvTxs, srvDrafts, nextId, transactions,
                   isLoading, isProcessing, balances, openDebts>>

\* catch: console.error
DiscardDraftFailed(s) ==
    /\ ops[s].kind = "discard"
    /\ ops[s].pc \in {"error", "conflict"}
    /\ ops' = Finish(s)
    /\ UNCHANGED <<foldVars, cdVars, wakeVars, userVars, contactVars, acts, last, srvTxs, srvDrafts, nextId, transactions, pendingDrafts,
                   isLoading, isProcessing, balances, openDebts>>

----------------------------------------------------------------------------
(* updateDraft *)

\* types of the Edit Entry panel
EditTypes == {"payment_received"}

\* edits the panel sends for draft d: one field at a time; the link button of
\* a debt sends its id, or undefined when that debt is already selected
Updates(d) ==
    {[NoUpdate EXCEPT !.amount = a] : a \in Amounts}
    \cup {[NoUpdate EXCEPT !.type = t] : t \in EditTypes}
    \cup {[NoUpdate EXCEPT !.linkedTransactionId =
              IF d.linkedTransactionId = openDebts[k].id
              THEN Undefined ELSE openDebts[k].id] : k \in DOMAIN openDebts}

\* texts typed into the Amount field of the panel
TypedAmounts == {"1", "2", "0", "-1", "abc", ""}

\* parseFloat(e.target.value)
parseFloat(text) ==
    CASE text = "1" -> 1
      [] text = "2" -> 2
      [] text = "0" -> 0
      [] text = "-1" -> -1
      [] OTHER -> NaN

\* x || 0: NaN and 0 are falsy
OrZero(x) == IF x = NaN \/ x = 0 THEN 0 ELSE x

\* updateData is built from the defined fields; draftsApi.update
UpdateDraftStart(i, u) ==
    /\ ~isLoading
    /\ i \in DOMAIN pendingDrafts
    /\ Invoke([Op("update", "request", pendingDrafts[i].id, pendingDrafts[i])
                  EXCEPT !.upd = u])
    /\ UNCHANGED <<foldVars, cdVars, wakeVars, userVars, contactVars, last, srvTxs, srvDrafts, nextId, transactions, pendingDrafts,
                   isLoading, isProcessing, balances, openDebts>>

\* a negative amount is a validation error
SrvInvalidAmount(u) == u.amount # Undefined /\ u.amount < 0

\* PATCH /drafts/{id} with a negative amount: rejected, nothing changes
UpdateServeInvalid(s) ==
    /\ ops[s].kind = "update"
    /\ ops[s].pc = "request"
    /\ SrvInvalidAmount(ops[s].upd)
    /\ ops' = [ops EXCEPT ![s].pc = "error"]
    /\ UNCHANGED <<foldVars, cdVars, wakeVars, userVars, contactVars, acts, last, srvTxs, srvDrafts, nextId,
                   transactions, pendingDrafts, isLoading, isProcessing,
                   balances, openDebts>>

\* PATCH /drafts/{id}: the fields sent replace those of a pending draft;
\* otherwise a conflict
UpdateServe(s) ==
    /\ ops[s].kind = "update"
    /\ ops[s].pc = "request"
    /\ ~SrvInvalidAmount(ops[s].upd)
    /\ IF SrvIsPending(ops[s].id)
       THEN LET d == SrvDraft(ops[s].id)
                u == ops[s].upd
                e == [d EXCEPT
                        !.amount = IF u.amount # Undefined
                                   THEN u.amount ELSE @,
                        !.type = IF u.type # "undefined" THEN u.type ELSE @,
                        !.linked = IF u.linkedTransactionId # Undefined
                                   THEN u.linkedTransactionId ELSE @]
            IN /\ srvDrafts' = SrvSetDraft(d.id, e)
               /\ ops' = [ops EXCEPT ![s].pc = "ok",
                                     ![s].saved = <<SrvDraftResponse(e)>>]
       ELSE /\ ops' = [ops EXCEPT ![s].pc = "conflict"]
            /\ UNCHANGED srvDrafts
    /\ UNCHANGED <<foldVars, cdVars, wakeVars, userVars, contactVars, acts, last, srvTxs, nextId, transactions, pendingDrafts, isLoading,
                   isProcessing, balances, openDebts>>

\* setPendingDrafts(prev => prev.map(d => d.id === draftId ? mapApiDraft(updated) : d))
UpdateDraftDone(s) ==
    /\ ops[s].kind = "update"
    /\ ops[s].pc = "ok"
    /\ pendingDrafts' =
          [k \in DOMAIN pendingDrafts |->
              IF pendingDrafts[k].id = ops[s].id
              THEN mapApiDraft(ops[s].saved[1]) ELSE pendingDrafts[k]]
    /\ ops' = Finish(s)
    /\ last' = Did("UpdateDraftDone", ops[s].id)
    /\ UNCHANGED <<foldVars, cdVars, wakeVars, userVars, contactVars, acts, srvTxs, srvDrafts, nextId, transactions, isLoading,
                   isProcessing, balances, openDebts>>

\* catch: console.error
UpdateDraftFailed(s) ==
    /\ ops[s].kind = "update"
    /\ ops[s].pc \in {"error", "conflict"}
    /\ ops' = Finish(s)
    /\ UNCHANGED <<foldVars, cdVars, wakeVars, userVars, contactVars, acts, last, srvTxs, srvDrafts, nextId, transactions, pendingDrafts,
                   isLoading, isProcessing, balances, openDebts>>

\* onChange of the Amount field:
\* onUpdateDraft(draft.id, {amount: parseFloat(e.target.value) || 0})
AmountChange(i, text) ==
    UpdateDraftStart(i, [NoUpdate EXCEPT !.amount = OrZero(parseFloat(text))])

----------------------------------------------------------------------------
(* deleteTransaction *)

DeleteTransactionStart(i) ==
    /\ ~isLoading
    /\ i \in DOMAIN transactions
    /\ Invoke(Op("delete", "request", transactions[i].id, NoDraft))
    /\ UNCHANGED <<foldVars, cdVars, wakeVars, userVars, contactVars, last, srvTxs, srvDrafts, nextId, transactions, pendingDrafts,
                   isLoading, isProcessing, balances, openDebts>>

\* DELETE /transactions/{id}: removes the transaction; not found otherwise
DeleteServe(s) ==
    /\ ops[s].kind = "delete"
    /\ ops[s].pc = "request"
    /\ IF \E k \in DOMAIN srvTxs : srvTxs[k].id = ops[s].id
       THEN /\ srvTxs' = SelectSeq(srvTxs, LAMBDA t : t.id # ops[s].id)
            /\ ops' = [ops EXCEPT ![s].pc = "ok"]
       ELSE /\ ops' = [ops EXCEPT ![s].pc = "error"]
            /\ UNCHANGED srvTxs
    /\ UNCHANGED <<foldVars, cdVars, wakeVars, userVars, contactVars, acts, last, srvDrafts, nextId, transactions, pendingDrafts, isLoading,
                   isProcessing, balances, openDebts>>

\* setTransactions(prev => prev.filter(t => t.id !== id))
DeleteTransactionDone(s) ==
    /\ ops[s].kind = "delete"
    /\ ops[s].pc = "ok"
    /\ SetTransactions(SelectSeq(transactions, LAMBDA t : t.id # ops[s].id))
    /\ ops' = Finish(s)
    /\ last' = Did("DeleteTransactionDone", ops[s].id)
    /\ UNCHANGED <<foldVars, cdVars, wakeVars, userVars, contactVars, acts, srvTxs, srvDrafts, nextId, pendingDrafts, isLoading,
                   isProcessing>>

\* catch: console.error
DeleteTransactionFailed(s) ==
    /\ ops[s].kind = "delete"
    /\ ops[s].pc = "error"
    /\ ops' = Finish(s)
    /\ UNCHANGED <<foldVars, cdVars, wakeVars, userVars, contactVars, acts, last, srvTxs, srvDrafts, nextId, transactions, pendingDrafts,
                   isLoading, isProcessing, balances, openDebts>>

----------------------------------------------------------------------------
(* addContact, updateContact *)

\* names typed into the contact forms
NewNames == {"ann"}

EditedNames == {"bob"}

\* contactsApi.create({name, ...})
AddContactStart(n) ==
    /\ ~isLoading
    /\ Invoke([Op("addContact", "request", 0, NoDraft) EXCEPT !.name = n])
    /\ UNCHANGED <<foldVars, cdVars, wakeVars, userVars, contactVars, last, srvTxs, srvDrafts, nextId,
                   transactions, pendingDrafts, isLoading, isProcessing,
                   balances, openDebts>>

\* POST /contacts: the contact is stored under a new identifier
AddContactServe(s) ==
    /\ ops[s].kind = "addContact"
    /\ ops[s].pc = "request"
    /\ LET c == [id |-> nextId, name |-> ops[s].name]
       IN /\ srvContacts' = Append(srvContacts, c)
          /\ ops' = [ops EXCEPT ![s].pc = "ok", ![s].saved = <<c>>]
    /\ nextId' = nextId + 1
    /\ UNCHANGED <<foldVars, cdVars, wakeVars, userVars, contacts, acts, last, srvTxs, srvDrafts,
                   transactions, pendingDrafts, isLoading, isProcessing,
                   balances, openDebts>>

\* setContacts(prev => [...prev, mapped]); return mapped
AddContactDone(s) ==
    /\ ops[s].kind = "addContact"
    /\ ops[s].pc = "ok"
    /\ contacts' = Append(contacts, mapApiContact(ops[s].saved[1]))
    /\ ops' = Finish(s)
    /\ last' = Did("AddContactDone", ops[s].saved[1].id)
    /\ UNCHANGED <<foldVars, cdVars, wakeVars, userVars, srvContacts, acts, srvTxs, srvDrafts, nextId,
                   transactions, pendingDrafts, isLoading, isProcessing,
                   balances, openDebts>>

\* catch: console.error; throw error
AddContactFailed(s) ==
    /\ ops[s].kind = "addContact"
    /\ ops[s].pc = "error"
    /\ ops' = Finish(s)
    /\ UNCHANGED <<foldVars, cdVars, wakeVars, userVars, contactVars, acts, last, srvTxs, srvDrafts, nextId,
                   transactions, pendingDrafts, isLoading, isProcessing,
                   balances, openDebts>>

\* contactsApi.update(id, updates)
UpdateContactStart(i, n) ==
    /\ ~isLoading
    /\ i \in DOMAIN contacts
    /\ Invoke([Op("updateContact", "request", contacts[i].id, NoDraft)
                  EXCEPT !.name = n])
    /\ UNCHANGED <<foldVars, cdVars, wakeVars, userVars, contactVars, last, srvTxs, srvDrafts, nextId,
                   transactions, pendingDrafts, isLoading, isProcessing,
                   balances, openDebts>>

\* PATCH /contacts/{id}: the name sent replaces the stored one; not found
\* otherwise
UpdateContactServe(s) ==
    /\ ops[s].kind = "updateContact"
    /\ ops[s].pc = "request"
    /\ IF \E k \in DOMAIN srvContacts : srvContacts[k].id = ops[s].id
       THEN /\ srvContacts' =
                  [k \in DOMAIN srvContacts |->
                      IF srvContacts[k].id = ops[s].id
                      THEN [srvContacts[k] EXCEPT !.name = ops[s].name]
                      ELSE srvContacts[k]]
            /\ ops' = [ops EXCEPT ![s].pc = "ok"]
       ELSE /\ ops' = [ops EXCEPT ![s].pc = "error"]
            /\ UNCHANGED srvContacts
    /\ UNCHANGED <<foldVars, cdVars, wakeVars, userVars, contacts, acts, last, srvTxs, srvDrafts, nextId,
                   transactions, pendingDrafts, isLoading, isProcessing,
                   balances, openDebts>>

\* setContacts(prev => prev.map(c => c.id === id ? {...c, ...updates} : c))
UpdateContactDone(s) ==
    /\ ops[s].kind = "updateContact"
    /\ ops[s].pc = "ok"
    /\ contacts' = [k \in DOMAIN contacts |->
                       IF contacts[k].id = ops[s].id
                       THEN [contacts[k] EXCEPT !.name = ops[s].name]
                       ELSE contacts[k]]
    /\ ops' = Finish(s)
    /\ last' = Did("UpdateContactDone", ops[s].id)
    /\ UNCHANGED <<foldVars, cdVars, wakeVars, userVars, srvContacts, acts, srvTxs, srvDrafts, nextId,
                   transactions, pendingDrafts, isLoading, isProcessing,
                   balances, openDebts>>

UpdateContactFailedApplies(s) ==
    /\ ops[s].kind = "updateContact"
    /\ ops[s].pc = "error"
    /\ contacts' = [k \in DOMAIN contacts |->
                       IF contacts[k].id = ops[s].id
                       THEN [contacts[k] EXCEPT !.name = ops[s].name]
                       ELSE contacts[k]]
    /\ ops' = Finish(s)
    /\ UNCHANGED <<foldVars, cdVars, wakeVars, userVars, srvContacts, acts, last, srvTxs, srvDrafts, nextId,
                   transactions, pendingDrafts, isLoading, isProcessing,
                   balances, openDebts>>

\* catch: console.error
UpdateContactFailed(s) ==
    /\ ops[s].kind = "updateContact"
    /\ ops[s].pc = "error"
    /\ ops' = Finish(s)
    /\ UNCHANGED <<foldVars, cdVars, wakeVars, userVars, contactVars, acts, last, srvTxs, srvDrafts, nextId,
                   transactions, pendingDrafts, isLoading, isProcessing,
                   balances, openDebts>>

----------------------------------------------------------------------------
(* handleTotalCashUpdate, todayCash *)

\* amounts typed into the Update Cash panel
CashInputs == {0, 1, MaxAmount}

Abs(x) == IF x < 0 THEN -x ELSE x

\* the filter of todayCash: dated today, on the cash account, and neither
\* an initial balance nor an adjustment
CountsToday(tx) ==
    /\ tx.date = "today"
    /\ tx.account = "cash"
    /\ ~(tx.category = "initial_balance" \/ tx.category = "adjustment")

RECURSIVE todayCashReduce(_, _)
todayCashReduce(txs, acc) ==
    IF txs = <<>> THEN acc
    ELSE LET tx == Head(txs)
         IN todayCashReduce(Tail(txs),
              CASE tx.type \in {"income", "payment_received", "loan_payable"} ->
                       [acc EXCEPT !.income = @ + tx.amount]
                [] tx.type \in {"expense", "payment_made", "loan_receivable"} ->
                       [acc EXCEPT !.expense = @ + tx.amount]
                [] OTHER -> acc)

todayCashAllCategories(txs) ==
    todayCashReduce(SelectSeq(txs, LAMBDA tx : /\ tx.date = "today"
                                               /\ tx.account = "cash"),
                    [income |-> 0, expense |-> 0])

\* the todayCash memo
todayCash(txs) ==
    todayCashReduce(SelectSeq(txs, CountsToday), [income |-> 0, expense |-> 0])

\* "Update Total Cash" with actualCash typed: the difference to the cash
\* balance of the render the callback closes over; a difference of at most
\* 0.01 only closes the panel
TotalCashUpdateStart(actualCash) ==
    /\ ~isLoading
    /\ LET difference == actualCash - balances.cash
       IN IF Abs(difference) > 0
          THEN /\ Invoke([Op("totalCash", "request", 0,
                             [NoDraft EXCEPT
                                 !.amount = Abs(difference),
                                 !.type = IF difference > 0 THEN "income"
                                          ELSE "expense",
                                 !.account = "cash"])
                          EXCEPT !.actualCash = actualCash])
               /\ UNCHANGED last
          ELSE /\ last' = Did("TotalCashUpdateNothing", actualCash)
               /\ UNCHANGED <<ops, acts>>
    /\ UNCHANGED <<foldVars, cdVars, wakeVars, userVars, contactVars, srvTxs,
                   srvDrafts, nextId, transactions, pendingDrafts, isLoading,
                   isProcessing, balances, openDebts>>

\* POST /transactions: the adjustment is added to the ledger
TotalCashServe(s) ==
    /\ ops[s].kind = "totalCash"
    /\ ops[s].pc = "request"
    /\ srvTxs' = Append(srvTxs, [id |-> nextId, type |-> ops[s].draft.type,
                                 account |-> ops[s].draft.account,
                                 amount |-> ops[s].draft.amount,
                                 linked |-> Null,
                                 category |-> "adjustment",
                                 date |-> "today"])
    /\ nextId' = nextId + 1
    /\ ops' = [ops EXCEPT
                  ![s].pc = "ok",
                  ![s].saved = <<SrvTransactionResponse(
                                     srvTxs'[Len(srvTxs')], srvTxs')>>]
    /\ UNCHANGED <<foldVars, cdVars, wakeVars, userVars, contactVars, acts, last,
                   srvDrafts, transactions, pendingDrafts, isLoading,
                   isProcessing, balances, openDebts>>

\* setTransactions(prev => [mapApiTransaction(newTx), ...prev])
TotalCashUpdateDone(s) ==
    /\ ops[s].kind = "totalCash"
    /\ ops[s].pc = "ok"
    /\ SetTransactions(<<mapApiTransaction(ops[s].saved[1])>> \o transactions)
    /\ ops' = Finish(s)
    /\ last' = Did("TotalCashUpdateDone", ops[s].saved[1].id)
    /\ UNCHANGED <<foldVars, cdVars, wakeVars, userVars, contactVars, acts, srvTxs,
                   srvDrafts, nextId, pendingDrafts, isLoading, isProcessing>>

\* catch: console.error
TotalCashUpdateFailed(s) ==
    /\ ops[s].kind = "totalCash"
    /\ ops[s].pc = "error"
    /\ ops' = Finish(s)
    /\ UNCHANGED <<foldVars, cdVars, wakeVars, userVars, contactVars, acts, last,
                   srvTxs, srvDrafts, nextId, transactions, pendingDrafts,
                   isLoading, isProcessing, balances, openDebts>>

----------------------------------------------------------------------------
(* AuthContext, and the initial cash setup of MainApp *)

Users == 1..MaxUsers

\* localStorage.setItem(key, value)
setItem(key, value) == [localStorage EXCEPT ![key] = value]

\* login, then MainApp mounted for the account: the useState initialisers
\* and the mount effect's fetchData; the remote store answers the requests
\* that carry the account's token from the account's own ledger
Login(u) ==
    /\ user = Null
    /\ localStorage' = setItem("vantrack_token", u)
    /\ user' = u
    /\ srvTxs' = stores[u]
    /\ hasInitialCash' = (localStorage["hasInitialCash"] = "true")
    /\ showInitialCashSetup' = FALSE
    /\ SetTransactions(<<>>)
    /\ pendingDrafts' = <<>>
    /\ contacts' = <<>>
    /\ isLoading' = TRUE
    /\ isProcessing' = FALSE
    /\ ops' = <<Op("fetch", "fetching", 0, NoDraft)>>
    /\ last' = Did("mount", u)
    /\ UNCHANGED <<foldVars, cdVars, wakeVars, stores, setupBy, srvDrafts, srvContacts,
                   nextId, acts>>

\* the handlers of AuthContext
AuthKinds == {"login", "updateUser"}

\* logout, once no handler of MainApp is in flight: the token is removed and
\* MainApp is unmounted
Logout ==
    /\ user # Null
    /\ ~isLoading
    /\ ~showInitialCashSetup
    /\ \A s \in Slots : ops[s].kind \in AuthKinds
    /\ localStorage' = [localStorage EXCEPT !["vantrack_token"] = Null]
    /\ user' = Null
    /\ stores' = [stores EXCEPT ![user] = srvTxs]
    /\ last' = Did("logout", user)
    /\ UNCHANGED <<foldVars, cdVars, wakeVars, contactVars, acts, srvTxs, srvDrafts,
                   nextId, transactions, pendingDrafts, isLoading,
                   isProcessing, balances, openDebts, ops, hasInitialCash,
                   showInitialCashSetup, setupBy>>

\* the effect on [isLoading, transactions.length, hasInitialCash], its timer
\* fired
InitialCashPrompt ==
    /\ user # Null
    /\ ~isLoading
    /\ Len(transactions) = 0
    /\ ~hasInitialCash
    /\ ~showInitialCashSetup
    /\ showInitialCashSetup' = TRUE
    /\ UNCHANGED <<foldVars, cdVars, wakeVars, appVars, stores, localStorage, user,
                   hasInitialCash, setupBy>>

\* "Set Initial Balance" with a positive amount typed
InitialCashSetupStart(a) ==
    /\ showInitialCashSetup
    /\ a > 0
    /\ Invoke(Op("initialCash", "request", 0, [NoDraft EXCEPT !.amount = a]))
    /\ UNCHANGED <<foldVars, cdVars, wakeVars, userVars, contactVars, last, srvTxs,
                   srvDrafts, nextId, transactions, pendingDrafts, isLoading,
                   isProcessing, balances, openDebts>>

\* POST /transactions: the income is added to the account's ledger
InitialCashServe(s) ==
    /\ ops[s].kind = "initialCash"
    /\ ops[s].pc = "request"
    /\ srvTxs' = Append(srvTxs, [id |-> nextId, type |-> "income",
                                 account |-> "cash",
                                 amount |-> ops[s].draft.amount,
                                 linked |-> Null,
                                 category |-> "initial_balance",
                                 date |-> "yesterday"])
    /\ nextId' = nextId + 1
    /\ ops' = [ops EXCEPT
                  ![s].pc = "ok",
                  ![s].saved = <<SrvTransactionResponse(
                                     srvTxs'[Len(srvTxs')], srvTxs')>>]
    /\ UNCHANGED <<foldVars, cdVars, wakeVars, userVars, contactVars, acts, last,
                   srvDrafts, transactions, pendingDrafts, isLoading,
                   isProcessing, balances, openDebts>>

\* setTransactions(prev => [mapApiTransaction(newTx), ...prev]), then the
\* setup is marked as completed
InitialCashSetupDone(s) ==
    /\ ops[s].kind = "initialCash"
    /\ ops[s].pc = "ok"
    /\ SetTransactions(<<mapApiTransaction(ops[s].saved[1])>> \o transactions)
    /\ localStorage' = setItem("hasInitialCash", "true")
    /\ hasInitialCash' = TRUE
    /\ showInitialCashSetup' = FALSE
    /\ setupBy' = setupBy \cup {user}
    /\ ops' = Finish(s)
    /\ last' = Did("InitialCashSetupDone", ops[s].saved[1].id)
    /\ UNCHANGED <<foldVars, cdVars, wakeVars, contactVars, acts, stores, user, srvTxs,
                   srvDrafts, nextId, pendingDrafts, isLoading, isProcessing>>

\* catch: console.error
InitialCashSetupFailed(s) ==
    /\ ops[s].kind = "initialCash"
    /\ ops[s].pc = "error"
    /\ ops' = Finish(s)
    /\ UNCHANGED <<foldVars, cdVars, wakeVars, userVars, contactVars, acts, last,
                   srvTxs, srvDrafts, nextId, transactions, pendingDrafts,
                   isLoading, isProcessing, balances, openDebts>>

\* "Skip for now (start from zero)"
InitialCashSkip ==
    /\ showInitialCashSetup
    /\ localStorage' = setItem("hasInitialCash", "true")
    /\ hasInitialCash' = TRUE
    /\ showInitialCashSetup' = FALSE
    /\ setupBy' = setupBy \cup {user}
    /\ UNCHANGED <<foldVars, cdVars, wakeVars, appVars, stores, user>>

----------------------------------------------------------------------------
(* AuthContext: login, fetchUser, updateUser *)

\* setUser(u) by the invocation at position s, which returns: when nobody
\* was authenticated MainApp is mounted for u, and its fetchData sends its
\* requests with the token localStorage holds then, none being rejected
SetUser(u, s) ==
    /\ user' = u
    /\ IF user = Null
       THEN /\ srvTxs' = stores[u]
            /\ hasInitialCash' = (localStorage["hasInitialCash"] = "true")
            /\ showInitialCashSetup' = FALSE
            /\ SetTransactions(<<>>)
            /\ pendingDrafts' = <<>>
            /\ contacts' = <<>>
            /\ isLoading' = TRUE
            /\ isProcessing' = FALSE
            /\ ops' = Append(Finish(s),
                        Op("fetch",
                           IF localStorage["vantrack_token"] = Null
                           THEN "rejected" ELSE "fetching", 0, NoDraft))
            /\ last' = Did("mount", u)
       ELSE /\ ops' = Finish(s)
            /\ UNCHANGED <<srvTxs, hasInitialCash, showInitialCashSetup,
                           transactions, balances, openDebts, pendingDrafts,
                           contacts, isLoading, isProcessing, last>>
    /\ UNCHANGED <<foldVars, cdVars, wakeVars, stores, setupBy, srvDrafts,
                   srvContacts, nextId, acts, localStorage>>

\* the list requests of fetchData were sent without a token and are
\* rejected: catch logs, finally setIsLoading(false)
FetchRejected(s) ==
    /\ ops[s].pc = "rejected"
    /\ isLoading' = FALSE
    /\ ops' = Finish(s)
    /\ UNCHANGED <<foldVars, cdVars, wakeVars, userVars, contactVars, acts,
                   last, srvTxs, srvDrafts, nextId, transactions,
                   pendingDrafts, isProcessing, balances, openDebts>>

\* AuthScreen submits the login form; the button is disabled while a
\* submission is under way
LoginStart(u) ==
    /\ user = Null
    /\ \A s \in Slots : ops[s].kind # "login"
    /\ Invoke(Op("login", "request", u, NoDraft))
    /\ UNCHANGED <<foldVars, cdVars, wakeVars, userVars, contactVars, last,
                   srvTxs, srvDrafts, nextId, transactions, pendingDrafts,
                   isLoading, isProcessing, balances, openDebts>>

\* POST /auth/login answers with an access token of the account
LoginServe(s) ==
    /\ ops[s].kind = "login"
    /\ ops[s].pc = "request"
    /\ ops' = [ops EXCEPT ![s].pc = "token"]
    /\ UNCHANGED <<foldVars, cdVars, wakeVars, userVars, contactVars, acts,
                   last, srvTxs, srvDrafts, nextId, transactions,
                   pendingDrafts, isLoading, isProcessing, balances,
                   openDebts>>

\* login stores the token and calls fetchUser, which finds the token and
\* sends GET /users/me
LoginFetchUser(s) ==
    /\ ops[s].kind = "login"
    /\ ops[s].pc = "token"
    /\ localStorage' = setItem("vantrack_token", ops[s].id)
    /\ ops' = [ops EXCEPT ![s].pc = "getMe"]
    /\ UNCHANGED <<foldVars, cdVars, wakeVars, contactVars, acts, last,
                   srvTxs, srvDrafts, nextId, transactions, pendingDrafts,
                   isLoading, isProcessing, balances, openDebts, stores,
                   user, hasInitialCash, showInitialCashSetup, setupBy>>

\* GET /users/me answers with the account of the token the request carries
GetMeServe(s) ==
    /\ ops[s].kind = "login"
    /\ ops[s].pc = "getMe"
    /\ ops' = [ops EXCEPT ![s].pc = "me"]
    /\ UNCHANGED <<foldVars, cdVars, wakeVars, userVars, contactVars, acts,
                   last, srvTxs, srvDrafts, nextId, transactions,
                   pendingDrafts, isLoading, isProcessing, balances,
                   openDebts>>

\* fetchUser: setUser(userData)
FetchUserDone(s) ==
    /\ ops[s].kind = "login"
    /\ ops[s].pc = "me"
    /\ SetUser(ops[s].id, s)

\* fetchUser: GET /users/me rejected with the given status; a 401 removes
\* the token
FetchUserFailed(s, status) ==
    /\ ops[s].kind = "login"
    /\ ops[s].pc = "getMe"
    /\ localStorage' = IF status = 401
                       THEN [localStorage EXCEPT !["vantrack_token"] = Null]
                       ELSE localStorage
    /\ ops' = Finish(s)
    /\ UNCHANGED <<foldVars, cdVars, wakeVars, contactVars, acts, last,
                   srvTxs, srvDrafts, nextId, transactions, pendingDrafts,
                   isLoading, isProcessing, balances, openDebts, stores,
                   user, hasInitialCash, showInitialCashSetup, setupBy>>

\* authApi.login rejected: AuthScreen shows the error
LoginFailed(s) ==
    /\ ops[s].kind = "login"
    /\ ops[s].pc = "error"
    /\ ops' = Finish(s)
    /\ UNCHANGED <<foldVars, cdVars, wakeVars, userVars, contactVars, acts,
                   last, srvTxs, srvDrafts, nextId, transactions,
                   pendingDrafts, isLoading, isProcessing, balances,
                   openDebts>>

\* MainApp's currency or language picker calls updateUser for the account
UpdateUserStart ==
    /\ user # Null
    /\ ~isLoading
    /\ Invoke(Op("updateUser", "request", user, NoDraft))
    /\ UNCHANGED <<foldVars, cdVars, wakeVars, userVars, contactVars, last,
                   srvTxs, srvDrafts, nextId, transactions, pendingDrafts,
                   isLoading, isProcessing, balances, openDebts>>

\* PUT /users/me answers with the updated account
UpdateUserServe(s) ==
    /\ ops[s].kind = "updateUser"
    /\ ops[s].pc = "request"
    /\ ops' = [ops EXCEPT ![s].pc = "ok"]
    /\ UNCHANGED <<foldVars, cdVars, wakeVars, userVars, contactVars, acts,
                   last, srvTxs, srvDrafts, nextId, transactions,
                   pendingDrafts, isLoading, isProcessing, balances,
                   openDebts>>

\* updateUser: setUser(updated)
UpdateUserDone(s) ==
    /\ ops[s].kind = "updateUser"
    /\ ops[s].pc = "ok"
    /\ SetUser(ops[s].id, s)

\* usersApi.updateMe rejected: the picker's catch logs
UpdateUserFailed(s) ==
    /\ ops[s].kind = "updateUser"
    /\ ops[s].pc = "error"
    /\ ops' = Finish(s)
    /\ UNCHANGED <<foldVars, cdVars, wakeVars, userVars, contactVars, acts,
                   last, srvTxs, srvDrafts, nextId, transactions,
                   pendingDrafts, isLoading, isProcessing, balances,
                   openDebts>>

----------------------------------------------------------------------------
(* useWakeWord *)

RecIds == DOMAIN recognitions

\* a recognition that has been started and has neither been stopped nor ended
Live(r) == recognitions[r].state \in {"starting", "running"}

\* recognitionRef.current.stop(): the end event of the recognition follows
stopRecognition(recs, ref) ==
    IF ref = Null THEN recs
    ELSE [recs EXCEPT ![ref].state =
             IF @ \in {"starting", "running"} THEN "stopping" ELSE @]

\* clearTimeout(restartTimeoutRef.current)
clearTimeout(ts, ref) == {t \in ts : t.id # ref}

\* restartTimeoutRef.current = setTimeout(...) in a callback whose closure
\* holds closureEnabled as enabled
SetRestartTimeout(closureEnabled) ==
    /\ timers' = timers \cup {[id |-> nextTimer, enabled |-> closureEnabled]}
    /\ restartTimeoutRef' = nextTimer
    /\ nextTimer' = nextTimer + 1

\* startListening of a render whose enabled is closureEnabled, from a state
\* whose recognitions are recs and whose isActiveRef is active: the early
\* return, or a new recognition whose callbacks close over that render
startListening(closureEnabled, recs, active) ==
    IF ~isSupported \/ ~closureEnabled \/ active
    THEN /\ recognitions' = recs
         /\ recognitionRef' = recognitionRef
    ELSE /\ Len(recs) < MaxRecs
         /\ recognitions' = Append(recs, [state |-> "starting",
                                          enabled |-> closureEnabled])
         /\ recognitionRef' = Len(recs) + 1

\* the enabled option changes: the cleanup of the effect runs stopListening,
\* then the effect runs startListening or stopListening of the new render
SetEnabled ==
    /\ enabled' = ~enabled
    /\ timers' = clearTimeout(timers, restartTimeoutRef)
    /\ restartTimeoutRef' = Null
    /\ isActiveRef' = FALSE
    /\ isListening' = FALSE
    /\ LET recs == stopRecognition(recognitions, recognitionRef)
       IN IF enabled' /\ isSupported
          THEN /\ Len(recs) < MaxRecs
               /\ recognitions' = Append(recs, [state |-> "starting",
                                                enabled |-> enabled'])
               /\ recognitionRef' = Len(recs) + 1
          ELSE /\ recognitions' = recs
               /\ recognitionRef' = Null
    /\ UNCHANGED <<appVars, foldVars, cdVars, userVars, isSupported,
                   nextTimer>>

\* recognition.onstart
RecStarted(r) ==
    /\ recognitions[r].state = "starting"
    /\ recognitions' = [recognitions EXCEPT ![r].state = "running"]
    /\ isActiveRef' = TRUE
    /\ isListening' = TRUE
    /\ UNCHANGED <<appVars, foldVars, cdVars, userVars, enabled, isSupported,
                   recognitionRef, restartTimeoutRef, timers, nextTimer>>

\* recognition.onresult with a transcript that holds the wake word:
\* recognition.stop(), onWakeWordDetected(), the restart timer of 3000 ms
RecWakeWord(r) ==
    /\ recognitions[r].state = "running"
    /\ recognitions' = [recognitions EXCEPT ![r].state = "stopping"]
    /\ SetRestartTimeout(recognitions[r].enabled)
    /\ UNCHANGED <<appVars, foldVars, cdVars, userVars, enabled, isSupported,
                   isListening, isActiveRef, recognitionRef>>

\* recognition.onerror, the end event of the recognition follows
RecError(r) ==
    /\ Live(r)
    /\ recognitions' = [recognitions EXCEPT ![r].state = "stopping"]
    /\ isActiveRef' = FALSE
    /\ isListening' = FALSE
    /\ SetRestartTimeout(recognitions[r].enabled)
    /\ UNCHANGED <<appVars, foldVars, cdVars, userVars, enabled, isSupported,
                   recognitionRef>>

\* the browser ends a running recognition (silence, its own time limit)
BrowserEnds(r) ==
    /\ recognitions[r].state = "running"
    /\ recognitions' = [recognitions EXCEPT ![r].state = "stopping"]
    /\ UNCHANGED <<appVars, foldVars, cdVars, userVars, enabled, isSupported,
                   isListening, isActiveRef, recognitionRef,
                   restartTimeoutRef, timers, nextTimer>>

\* recognition.onend
RecEnded(r) ==
    /\ recognitions[r].state = "stopping"
    /\ recognitions' = [recognitions EXCEPT ![r].state = "ended"]
    /\ isActiveRef' = FALSE
    /\ isListening' = FALSE
    /\ IF recognitions[r].enabled /\ restartTimeoutRef = Null
       THEN SetRestartTimeout(recognitions[r].enabled)
       ELSE UNCHANGED <<restartTimeoutRef, timers, nextTimer>>
    /\ UNCHANGED <<appVars, foldVars, cdVars, userVars, enabled, isSupported,
                   recognitionRef>>

\* a restart timer runs: if (enabled) startListening(), both of the render
\* the callback closes over; restartTimeoutRef keeps the identifier
TimerFired(t) ==
    /\ t \in timers
    /\ timers' = timers \ {t}
    /\ IF t.enabled
       THEN startListening(t.enabled, recognitions, isActiveRef)
       ELSE UNCHANGED <<recognitions, recognitionRef>>
    /\ UNCHANGED <<appVars, foldVars, cdVars, userVars, enabled, isSupported,
                   isListening, isActiveRef, restartTimeoutRef, nextTimer>>

----------------------------------------------------------------------------
(* Specifications *)

\* what the remote store holds when the application is opened
InitialLedgers ==
    {<<>>,
     <<[id |-> 1, type |-> "credit_receivable", account |-> "cash",
        amount |-> 2, linked |-> Null,
        category |-> "sales", date |-> "today"]>>,
     <<[id |-> 1, type |-> "credit_receivable", account |-> "cash",
        amount |-> 2, linked |-> Null,
        category |-> "sales", date |-> "today"],
       [id |-> 2, type |-> "payment_received", account |-> "cash",
        amount |-> 1, linked |-> 1,
        category |-> "sales", date |-> "today"]>>,
     <<[id |-> 1, type |-> "loan_payable", account |-> "bank",
        amount |-> 2, linked |-> Null,
        category |-> "sales", date |-> "today"]>>,
     <<[id |-> 1, type |-> "credit_receivable", account |-> "cash",
        amount |-> 2, linked |-> Null,
        category |-> "sales", date |-> "today"],
       [id |-> 2, type |-> "credit_payable", account |-> "cash",
        amount |-> 1, linked |-> Null,
        category |-> "sales", date |-> "today"],
       [id |-> 3, type |-> "payment_made", account |-> "cash",
        amount |-> 1, linked |-> 2,
        category |-> "sales", date |-> "today"]>>}

\* the pending drafts the remote store may hold next to a ledger when the
\* application is opened: none, or two left from an earlier session
InitialDrafts(txs) ==
    {<<>>} \cup
    (IF Len(txs) = 1 /\ txs[1].type = "credit_receivable"
     THEN {<<[id |-> 2, type |-> "payment_received", account |-> "cash",
              amount |-> 1, linked |-> 1, status |-> "pending"],
             [id |-> 3, type |-> "credit_receivable", account |-> "cash",
              amount |-> 1, linked |-> Null, status |-> "pending"]>>}
     ELSE {})

CdIdle ==
    /\ cdTxs = <<>>
    /\ cdContacts = <<>>
    /\ cdPc = "input"
    /\ cdOut = <<>>

FoldIdle ==
    /\ fTxs = <<>>
    /\ fPc = "input"
    /\ fOut = [whole |-> [cash |-> 0, bank |-> 0, credit |-> 0, loan |-> 0],
               open |-> <<>>, splits |-> {},
               reversed |-> [cash |-> 0, bank |-> 0, credit |-> 0, loan |-> 0],
               again |-> [cash |-> 0, bank |-> 0, credit |-> 0, loan |-> 0],
               openAgain |-> <<>>]

\* MainApp mounted: empty caches, isLoading true, the mount effect's
\* fetchData in flight
AppInit ==
    /\ srvTxs \in InitialLedgers
    /\ srvDrafts \in InitialDrafts(srvTxs)
    /\ srvContacts = <<>>
    /\ contacts = <<>>
    /\ nextId = Len(srvTxs) + Len(srvDrafts) + 1
    /\ transactions = <<>>
    /\ pendingDrafts = <<>>
    /\ isLoading = TRUE
    /\ isProcessing = FALSE
    /\ balances = [cash |-> 0, bank |-> 0, credit |-> 0, loan |-> 0]
    /\ openDebts = <<>>
    /\ ops = <<Op("fetch", "fetching", 0, NoDraft)>>
    /\ last = Did("mount", 0)
    /\ acts = 0

\* one account logged in, its initial cash setup done in an earlier session
UserIdle ==
    /\ user = 1
    /\ stores = [u \in Users |-> <<>>]
    /\ localStorage = [hasInitialCash |-> "true", vantrack_token |-> 1]
    /\ hasInitialCash = TRUE
    /\ showInitialCashSetup = FALSE
    /\ setupBy = {1}

\* ChatInterface not rendered: useWakeWord not in use
WakeIdle ==
    /\ enabled = FALSE
    /\ isSupported = FALSE
    /\ isListening = FALSE
    /\ isActiveRef = FALSE
    /\ recognitionRef = Null
    /\ restartTimeoutRef = Null
    /\ recognitions = <<>>
    /\ timers = {}
    /\ nextTimer = 1

Init == AppInit /\ FoldIdle /\ CdIdle /\ UserIdle /\ WakeIdle

Next ==
    \/ \E s \in Slots : FetchServeTransactions(s)
    \/ \E s \in Slots : FetchServeDrafts(s)
    \/ \E s \in Slots : FetchDone(s)
    \/ \E s \in Slots : FetchFail(s)
    \/ \E s \in Slots : RequestFail(s)
    \/ SendMessageStart
    \/ \E s \in Slots : \E p \in Proposals(ops[s].offer) :
           SendMessageServe(s, p)
    \/ \E s \in Slots : SendMessageAnswer(s)
    \/ \E s \in Slots : SendMessageDone(s)
    \/ \E s \in Slots : SendMessageFailed(s)
    \/ \E i \in DOMAIN pendingDrafts : ConfirmDraftStart(i)
    \/ \E s \in Slots : ConfirmServe(s)
    \/ \E s \in Slots : ConfirmDraftFetch(s)
    \/ \E s \in Slots : ConfirmDraftFailed(s)
    \/ \E i \in DOMAIN pendingDrafts : DiscardDraftStart(i)
    \/ \E s \in Slots : DiscardServe(s)
    \/ \E s \in Slots : DiscardDraftDone(s)
    \/ \E s \in Slots : DiscardDraftFailed(s)
    \/ \E i \in DOMAIN pendingDrafts :
           \E u \in Updates(pendingDrafts[i]) : UpdateDraftStart(i, u)
    \/ \E s \in Slots : UpdateServe(s)
    \/ \E s \in Slots : UpdateDraftDone(s)
    \/ \E s \in Slots : UpdateDraftFailed(s)
    \/ \E i \in DOMAIN transactions : DeleteTransactionStart(i)
    \/ \E s \in Slots : DeleteServe(s)
    \/ \E s \in Slots : DeleteTransactionDone(s)
    \/ \E s \in Slots : DeleteTransactionFailed(s)
    \/ \E s \in Slots : FetchServeContacts(s)

Spec == Init /\ [][Next]_vars

\* MainApp opened on a ledger with pending drafts, the contact forms in use
ContactInit ==
    /\ Init
    /\ srvDrafts # <<>>

ContactNext ==
    \/ Next
    \/ \E n \in NewNames : AddContactStart(n)
    \/ \E s \in Slots : AddContactServe(s)
    \/ \E s \in Slots : AddContactDone(s)
    \/ \E s \in Slots : AddContactFailed(s)
    \/ \E i \in DOMAIN contacts : \E n \in EditedNames :
           UpdateContactStart(i, n)
    \/ \E s \in Slots : UpdateContactServe(s)
    \/ \E s \in Slots : UpdateContactDone(s)
    \/ \E s \in Slots : UpdateContactFailed(s)

ContactSpec == ContactInit /\ [][ContactNext]_vars

\* MainApp opened on a ledger with pending drafts, any text typed into the
\* Amount field of the Edit Entry panel
EditInit ==
    /\ Init
    /\ srvDrafts # <<>>

EditNext ==
    \/ Next
    \/ \E i \in DOMAIN pendingDrafts : \E text \in TypedAmounts :
           AmountChange(i, text)
    \/ \E s \in Slots : UpdateServeInvalid(s)

EditSpec == EditInit /\ [][EditNext]_vars

\* the reducer applied to every list of at most MaxLen transactions
FoldSpecInit ==
    /\ FoldInit
    /\ CdIdle
    /\ UserIdle
    /\ WakeIdle
    /\ srvTxs = <<>>
    /\ srvDrafts = <<>>
    /\ srvContacts = <<>>
    /\ contacts = <<>>
    /\ nextId = 1
    /\ transactions = <<>>
    /\ pendingDrafts = <<>>
    /\ isLoading = TRUE
    /\ isProcessing = FALSE
    /\ balances = [cash |-> 0, bank |-> 0, credit |-> 0, loan |-> 0]
    /\ openDebts = <<>>
    /\ ops = <<>>
    /\ last = Did("none", 0)
    /\ acts = 0

\* MainApp not in use: nothing loaded, nothing in flight
AppIdle ==
    /\ srvTxs = <<>>
    /\ srvDrafts = <<>>
    /\ srvContacts = <<>>
    /\ contacts = <<>>
    /\ nextId = 1
    /\ transactions = <<>>
    /\ pendingDrafts = <<>>
    /\ isLoading = TRUE
    /\ isProcessing = FALSE
    /\ balances = [cash |-> 0, bank |-> 0, credit |-> 0, loan |-> 0]
    /\ openDebts = <<>>
    /\ ops = <<>>
    /\ last = Did("none", 0)
    /\ acts = 0

\* CreditManagement rendered with every list of at most MaxContacts contacts
\* and of at most MaxContacts transactions
CdSpecInit == CdInit /\ FoldIdle /\ AppIdle /\ UserIdle /\ WakeIdle

CdNext == ContactDataRun

CdSpec == CdSpecInit /\ [][CdNext]_vars

\* the ledger an account may hold when the browser is first used: the first
\* account none or one income, every other account none
UserLedgers(u) ==
    IF u = 1
    THEN {<<>>,
          <<[id |-> u, type |-> "income", account |-> "cash", amount |-> 1,
             linked |-> Null, category |-> "sales", date |-> "today"]>>}
    ELSE {<<>>}

UserInit ==
    /\ FoldIdle
    /\ CdIdle
    /\ WakeIdle
    /\ stores \in [Users -> UNION {UserLedgers(u) : u \in Users}]
    /\ \A u \in Users : stores[u] \in UserLedgers(u)
    /\ localStorage = [hasInitialCash |-> "null", vantrack_token |-> Null]
    /\ user = Null
    /\ hasInitialCash = FALSE
    /\ showInitialCashSetup = FALSE
    /\ setupBy = {}
    /\ srvTxs = <<>>
    /\ srvDrafts = <<>>
    /\ srvContacts = <<>>
    /\ contacts = <<>>
    /\ nextId = MaxUsers + 1
    /\ transactions = <<>>
    /\ pendingDrafts = <<>>
    /\ isLoading = TRUE
    /\ isProcessing = FALSE
    /\ balances = [cash |-> 0, bank |-> 0, credit |-> 0, loan |-> 0]
    /\ openDebts = <<>>
    /\ ops = <<>>
    /\ last = Did("none", 0)
    /\ acts = 0

UserNext ==
    \/ \E u \in Users : Login(u)
    \/ Logout
    \/ \E s \in Slots : FetchServeTransactions(s)
    \/ \E s \in Slots : FetchServeContacts(s)
    \/ \E s \in Slots : FetchServeDrafts(s)
    \/ \E s \in Slots : FetchDone(s)
    \/ \E s \in Slots : FetchFail(s)
    \/ InitialCashPrompt
    \/ \E a \in Amounts : InitialCashSetupStart(a)
    \/ \E s \in Slots : InitialCashServe(s)
    \/ \E s \in Slots : RequestFail(s)
    \/ \E s \in Slots : InitialCashSetupDone(s)
    \/ \E s \in Slots : InitialCashSetupFailed(s)
    \/ InitialCashSkip
    \/ \E actualCash \in CashInputs : TotalCashUpdateStart(actualCash)
    \/ \E s \in Slots : TotalCashServe(s)
    \/ \E s \in Slots : TotalCashUpdateDone(s)
    \/ \E s \in Slots : TotalCashUpdateFailed(s)

UserSpec == UserInit /\ [][UserNext]_vars

\* AuthProvider mounted in a browser nobody has used: AuthScreen shown
AuthNext ==
    \/ \E u \in Users : LoginStart(u)
    \/ \E s \in Slots : LoginServe(s)
    \/ \E s \in Slots : LoginFetchUser(s)
    \/ \E s \in Slots : GetMeServe(s)
    \/ \E s \in Slots : FetchUserDone(s)
    \/ \E s \in Slots : \E status \in {401, 500} : FetchUserFailed(s, status)
    \/ \E s \in Slots : LoginFailed(s)
    \/ UpdateUserStart
    \/ \E s \in Slots : UpdateUserServe(s)
    \/ \E s \in Slots : UpdateUserDone(s)
    \/ \E s \in Slots : UpdateUserFailed(s)
    \/ \E s \in Slots : RequestFail(s)
    \/ Logout
    \/ \E s \in Slots : FetchServeTransactions(s)
    \/ \E s \in Slots : FetchServeContacts(s)
    \/ \E s \in Slots : FetchServeDrafts(s)
    \/ \E s \in Slots : FetchDone(s)
    \/ \E s \in Slots : FetchFail(s)
    \/ \E s \in Slots : FetchRejected(s)

AuthSpec == UserInit /\ [][AuthNext]_vars

\* MainApp opened on any ledger, the Update Cash panel in use
CashNext ==
    \/ Next
    \/ \E actualCash \in CashInputs : TotalCashUpdateStart(actualCash)
    \/ \E s \in Slots : TotalCashServe(s)
    \/ \E s \in Slots : TotalCashUpdateDone(s)
    \/ \E s \in Slots : TotalCashUpdateFailed(s)

CashSpec == Init /\ [][CashNext]_vars

\* useWakeWord mounted, the support effect and the start/stop effect run:
\* in a browser with speech recognition and with enabled true the first
\* recognition has been started
WakeInit ==
    /\ AppIdle
    /\ FoldIdle
    /\ CdIdle
    /\ UserIdle
    /\ enabled \in BOOLEAN
    /\ isSupported \in BOOLEAN
    /\ isListening = FALSE
    /\ isActiveRef = FALSE
    /\ restartTimeoutRef = Null
    /\ timers = {}
    /\ nextTimer = 1
    /\ IF enabled /\ isSupported
       THEN /\ recognitions = <<[state |-> "starting", enabled |-> TRUE]>>
            /\ recognitionRef = 1
       ELSE /\ recognitions = <<>>
            /\ recognitionRef = Null

WakeNext ==
    \/ SetEnabled
    \/ \E r \in RecIds : RecStarted(r)
    \/ \E r \in RecIds : RecWakeWord(r)
    \/ \E r \in RecIds : RecError(r)
    \/ \E r \in RecIds : BrowserEnds(r)
    \/ \E r \in RecIds : RecEnded(r)
    \/ \E t \in timers : TimerFired(t)

WakeSpec == WakeInit /\ [][WakeNext]_vars

\* a timer that was set runs, and the browser delivers the start event of a
\* started recognition and the end event of a stopped one
WakeFairness ==
    /\ WF_vars(\E t \in timers : TimerFired(t))
    /\ WF_vars(\E r \in RecIds : RecStarted(r))
    /\ WF_vars(\E r \in RecIds : RecEnded(r))

WakeLiveSpec == WakeSpec /\ WakeFairness

FoldNext ==
    \/ FoldRun
    \/ FoldAgain

FoldSpec == FoldSpecInit /\ [][FoldNext]_vars

----------------------------------------------------------------------------
(* Properties of the balance reducer (FoldSpec) *)

\* the effect of one transaction on one field, by the table of effects
Effect(f, tx) ==
    LET onAccount == IF f = tx.account THEN tx.amount ELSE 0
        on(field) == IF f = field THEN tx.amount ELSE 0
    IN CASE tx.type = "income" -> onAccount
         [] tx.type = "expense" -> 0 - onAccount
         [] tx.type = "transfer" -> 0 - onAccount
         [] tx.type = "credit_receivable" -> on("credit")
         [] tx.type = "credit_payable" -> on("loan")
         [] tx.type = "loan_receivable" -> on("credit") - onAccount
         [] tx.type = "loan_payable" -> onAccount + on("loan")
         [] tx.type = "payment_received" -> onAccount - on("credit")
         [] tx.type = "payment_made" -> 0 - onAccount - on("loan")

RECURSIVE SumEffect(_, _, _)
SumEffect(f, txs, i) ==
    IF i = 0 THEN 0 ELSE Effect(f, txs[i]) + SumEffect(f, txs, i - 1)

TableSum(txs) ==
    [f \in {"cash", "bank", "credit", "loan"} |-> SumEffect(f, txs, Len(txs))]

Plus(a, b) ==
    [cash |-> a.cash + b.cash, bank |-> a.bank + b.bank,
     credit |-> a.credit + b.credit, loan |-> a.loan + b.loan]

\* C1: for every list of transactions the reducer returns, in each of cash,
\* bank, credit and loan, the sum of the per-type effects of the table, and
\* touches no other field.
C1_BalanceFollowsTable ==
    fPc # "input" =>
        /\ DOMAIN fOut.whole = {"cash", "bank", "credit", "loan"}
        /\ \A f \in DOMAIN fOut.whole : fOut.whole[f] = TableSum(fTxs)[f]

\* a loan_payable on bank followed by an expense on cash has been reduced
C1_Witness ==
    /\ fPc = "done"
    /\ Len(fTxs) = 2
    /\ fTxs[1].type = "loan_payable" /\ fTxs[1].account = "bank"
    /\ fTxs[2].type = "expense" /\ fTxs[2].account = "cash"
    /\ fOut.whole = [cash |-> 0 - fTxs[2].amount, bank |-> fTxs[1].amount,
                     credit |-> 0, loan |-> fTxs[1].amount]

----------------------------------------------------------------------------
(* Properties of MainApp (Spec) *)

\* C2: every transaction of the client's list has one of the nine types: a
\* record of any other type is rejected when it is mapped into the list.
C2_OnlyNineTypes ==
    \A i \in DOMAIN transactions : transactions[i].type \in TransactionType

\* C5: the net worth shown is cash + bank + credit - loan of the balances
\* recomputed from the current transaction list.
C5_NetWorthRecomputed ==
    LET b == Reduce(transactions, InitialValue)
    IN NetWorth(balances) = b.cash + b.bank + b.credit - b.loan

\* the application shows a ledger with a liability
C5_Witness ==
    /\ ~isLoading
    /\ transactions # <<>>
    /\ balances.loan > 0
    /\ balances.bank > 0

\* the steps of handleSendMessage, updateDraft and discardDraft
DraftSteps ==
    \/ SendMessageStart
    \/ \E s \in Slots : \E p \in Proposals(ops[s].offer) : SendMessageServe(s, p)
    \/ \E s \in Slots : SendMessageAnswer(s)
    \/ \E s \in Slots : SendMessageDone(s)
    \/ \E s \in Slots : SendMessageFailed(s)
    \/ \E i \in DOMAIN pendingDrafts : DiscardDraftStart(i)
    \/ \E s \in Slots : DiscardServe(s)
    \/ \E s \in Slots : DiscardDraftDone(s)
    \/ \E s \in Slots : DiscardDraftFailed(s)
    \/ \E i \in DOMAIN pendingDrafts :
           \E u \in Updates(pendingDrafts[i]) : UpdateDraftStart(i, u)
    \/ \E s \in Slots : UpdateServe(s)
    \/ \E s \in Slots : UpdateDraftDone(s)
    \/ \E s \in Slots : UpdateDraftFailed(s)
    \/ \E s \in Slots :
           RequestFail(s) /\ ops[s].kind \in {"send", "update", "discard"}

\* C6: no step of handleSendMessage, updateDraft or discardDraft changes the
\* transactions or the balances; the entries they add are pending drafts; a
\* transaction is only created by the confirmation of a draft.
C6_DraftsDoNotTouchLedger ==
    [][/\ DraftSteps =>
            /\ transactions' = transactions
            /\ balances' = balances
            /\ srvTxs' = srvTxs
            /\ \A i \in DOMAIN pendingDrafts' :
                   pendingDrafts'[i].actionStatus = "pending"
       /\ Len(srvTxs') > Len(srvTxs) => \E s \in Slots : ConfirmServe(s)]_vars

\* a parsed entry has just become a pending draft next to a non-empty ledger
C6_Witness ==
    /\ last.act = "SendMessageDone"
    /\ \E i \in DOMAIN pendingDrafts : pendingDrafts[i].id = last.id
    /\ transactions # <<>>
    /\ balances.credit > 0

----------------------------------------------------------------------------
(* Debts and settlement as held by the client (Spec) *)

\* the payments of the client's list that are linked to the transaction id
ClientLinkedPayments(txs, id) ==
    SelectSeq(txs, LAMBDA p :
                 p.type \in PaymentTypes /\ p.linkedTransactionId = id)

\* max(0, amount - sum of the linked payments of the list)
ExpectedRemaining(d, txs) ==
    Max(0, d.amount - SumAmounts(ClientLinkedPayments(txs, d.id)))

ExpectedStatus(r, amount) ==
    IF r = 0 THEN "settled" ELSE IF r < amount THEN "partial" ELSE "open"

\* C7: for every debt of the client's list, the remaining amount used for it
\* is max(0, amount - sum of the payments of the list linked to it).
C7_RemainingMatchesPayments ==
    \A i \in DOMAIN transactions :
        transactions[i].type \in DebtTypes =>
            RemainingUsed(transactions[i]) =
                ExpectedRemaining(transactions[i], transactions)

\* C8: for every debt of the client's list, status is settled iff the
\* remaining amount is 0, partial iff it lies strictly between 0 and the
\* amount, open otherwise; the debt is an open debt iff the remaining amount
\* is greater than 0.
C8_StatusFollowsRemaining ==
    \A i \in DOMAIN transactions :
        LET d == transactions[i]
            r == RemainingUsed(d)
        IN d.type \in DebtTypes =>
              /\ d.status = ExpectedStatus(r, d.amount)
              /\ (\E k \in DOMAIN openDebts : openDebts[k].id = d.id) <=> r > 0

\* C9: when deleteTransaction completes for a payment linked to a debt, the
\* remaining amount and the status the client holds for that debt are those
\* of the list without the payment.
C9_DeleteRecomputesDebt ==
    [][\A s \in Slots :
          DeleteTransactionDone(s) =>
              \A i \in DOMAIN transactions : \A j \in DOMAIN transactions' :
                  \A k \in DOMAIN transactions :
                  (/\ transactions[i].id = ops[s].id
                   /\ transactions[i].type \in PaymentTypes
                   /\ transactions[k].type \in DebtTypes
                   /\ transactions[k].id = transactions[i].linkedTransactionId
                   /\ transactions'[j].id = transactions[k].id)
                  => /\ RemainingUsed(transactions'[j]) =
                           ExpectedRemaining(transactions'[j], transactions')
                     /\ transactions'[j].status =
                           ExpectedStatus(
                               ExpectedRemaining(transactions'[j], transactions'),
                               transactions'[j].amount)]_vars

\* C10: when the confirmation of a payment draft linked to a debt has been
\* applied, the remaining amount the client holds for the debt has not grown
\* and is not negative.
C10_SettlementMonotone ==
    [][\A s \in Slots :
          (/\ FetchDone(s)
           /\ ops[s].kind = "confirm"
           /\ ops[s].draft.type \in PaymentTypes) =>
              \A i \in DOMAIN transactions : \A j \in DOMAIN transactions' :
                  (/\ transactions[i].type \in DebtTypes
                   /\ transactions[i].id = ops[s].draft.linkedTransactionId
                   /\ transactions'[j].id = transactions[i].id)
                  => /\ RemainingUsed(transactions'[j]) <=
                           RemainingUsed(transactions[i])
                     /\ RemainingUsed(transactions'[j]) >= 0]_vars

----------------------------------------------------------------------------
(* Dangling links (Spec) *)

\* the payments of the list whose link names no transaction of the list
IsDangling(p, txs) ==
    /\ p.type \in PaymentTypes
    /\ p.linkedTransactionId # Undefined
    /\ \A k \in DOMAIN txs : txs[k].id # p.linkedTransactionId

WithoutDangling(txs) == SelectSeq(txs, LAMBDA p : ~IsDangling(p, txs))

----------------------------------------------------------------------------
(* Draft lifecycle (Spec) *)

InPendingDrafts(list, id) == \E k \in DOMAIN list : list[k].id = id

\* C12: a draft that is confirmed or discarded keeps that status, and once it
\* is out of pendingDrafts no step of confirmDraft, discardDraft, updateDraft
\* or of a refetch puts it back there as a pending draft.
C12_DraftTerminality ==
    [][\A i \in DOMAIN srvDrafts :
          srvDrafts[i].status # "pending" =>
              /\ srvDrafts'[i].status = srvDrafts[i].status
              /\ ~InPendingDrafts(pendingDrafts, srvDrafts[i].id) =>
                     ~InPendingDrafts(pendingDrafts', srvDrafts[i].id)]_vars

CreatedFrom(t, d) ==
    /\ t.type = d.type
    /\ t.account = d.account
    /\ t.amount = d.amount
    /\ t.linkedTransactionId = OrUndefined(d.linked)

C15_DiscardRemovesDraft ==
    [][/\ \A s \in Slots :
            DiscardDraftDone(s) =>
                /\ ~InPendingDrafts(pendingDrafts', ops[s].id)
                /\ pendingDrafts' =
                       SelectSeq(pendingDrafts, LAMBDA d : d.id # ops[s].id)
                /\ transactions' = transactions
                /\ srvTxs' = srvTxs
       /\ \A i \in DOMAIN srvDrafts :
            (/\ srvDrafts[i].status = "discarded"
             /\ ~InPendingDrafts(pendingDrafts, srvDrafts[i].id))
            => ~InPendingDrafts(pendingDrafts', srvDrafts[i].id)]_vars

\* the steps a failing handler takes: its invocation, the loss or rejection
\* of its request, and its catch block
FailingSteps(s) ==
    \/ RequestFail(s)
    \/ /\ \/ ConfirmServe(s)
          \/ DiscardServe(s)
          \/ UpdateServe(s)
          \/ DeleteServe(s)
          \/ UpdateContactServe(s)
       /\ ops'[s].pc \in {"error", "conflict"}
    \/ DeleteTransactionFailed(s)
    \/ DiscardDraftFailed(s)
    \/ UpdateDraftFailed(s)
    \/ ConfirmDraftFailed(s)
    \/ AddContactFailed(s)
    \/ UpdateContactFailed(s)

\* C16: no step of deleteTransaction, discardDraft, updateDraft, confirmDraft,
\* addContact or updateContact whose request fails, from the invocation to the
\* end of the catch block, changes transactions, pendingDrafts or contacts.
C16_FailedRequestLeavesState ==
    [][/\ Len(ops') > Len(ops) =>
            /\ transactions' = transactions
            /\ pendingDrafts' = pendingDrafts
            /\ contacts' = contacts
       /\ \A s \in Slots :
            (ops[s].kind # "send" /\ FailingSteps(s)) =>
                /\ transactions' = transactions
                /\ pendingDrafts' = pendingDrafts
                /\ contacts' = contacts]_vars

\* the request of updateContact for a contact of the list has failed and the
\* handler is about to run its catch block
C16_Witness ==
    \E s \in Slots :
        /\ ops[s].kind = "updateContact"
        /\ ops[s].pc = "error"
        /\ \E i \in DOMAIN contacts :
              contacts[i].id = ops[s].id /\ contacts[i].name # ops[s].name
        /\ pendingDrafts # <<>>
        /\ transactions # <<>>

----------------------------------------------------------------------------
(* Responses out of order (Spec) *)

\* C17: when the responses of a refetch are applied and no request remains in
\* flight, transactions and pendingDrafts are the store's current
\* transactions and pending drafts; and no refetch brings back a draft or a
\* transaction that the store no longer holds and that a later response had
\* already removed from the client's lists.
C17_OutOfOrderTolerated ==
    [][\A s \in Slots :
          FetchDone(s) =>
              /\ ops' = <<>> =>
                     /\ transactions' = MapTransactions(SrvListTransactions)
                     /\ pendingDrafts' = MapDrafts(SrvListDrafts)
              /\ \A j \in DOMAIN pendingDrafts' :
                     \/ SrvIsPending(pendingDrafts'[j].id)
                     \/ InPendingDrafts(pendingDrafts, pendingDrafts'[j].id)
              /\ \A j \in DOMAIN transactions' :
                     \/ \E k \in DOMAIN srvTxs :
                            srvTxs[k].id = transactions'[j].id
                     \/ \E i \in DOMAIN transactions :
                            transactions[i].id = transactions'[j].id]_vars

----------------------------------------------------------------------------
(* Amounts at the boundary (EditSpec) *)

\* C18: a text typed into the Amount field that is a negative number or no
\* number sends no update: no request carries a negative amount or a value
\* put in its place, and no draft or transaction has an amount below 0.
C18_NegativeAmountRejected ==
    [][/\ \A i \in DOMAIN pendingDrafts : \A text \in TypedAmounts :
            (parseFloat(text) = NaN \/ parseFloat(text) < 0) =>
                ~AmountChange(i, text)
       /\ \A s \in DOMAIN ops' :
            ops'[s].upd.amount # Undefined => ops'[s].upd.amount >= 0
       /\ \A i \in DOMAIN srvDrafts' : srvDrafts'[i].amount >= 0
       /\ \A i \in DOMAIN srvTxs' : srvTxs'[i].amount >= 0]_vars

----------------------------------------------------------------------------
(* Contact resolution (CdSpec) *)

\* the contacts under which the memo lists transaction t
ShownUnder(t) ==
    {i \in DOMAIN cdContacts :
        \E k \in DOMAIN cdOut[cdContacts[i].id].txs :
            cdOut[cdContacts[i].id].txs[k].id = t.id}

\* the contacts whose name is t.contact up to letter case
NameMatches(t) ==
    {i \in DOMAIN cdContacts :
        /\ t.contact # "undefined"
        /\ toLowerCase(cdContacts[i].name) = toLowerCase(t.contact)}

RECURSIVE SumRemaining(_, _)
SumRemaining(txs, types) ==
    IF txs = <<>> THEN 0
    ELSE (IF Head(txs).type \in types THEN RemainingUsed(Head(txs)) ELSE 0)
         + SumRemaining(Tail(txs), types)

\* C19: a transaction with a contactId is listed under the contact with that
\* id and under no other, whatever its contact name; one without contactId
\* under one contact whose name is its contact name up to letter case; one
\* that matches no contact, or whose contactId no contact has, under no
\* contact; and each contact's receivable and payable are the remaining
\* amounts of the debts listed under it.
C19_ContactResolution ==
    cdPc = "done" =>
        /\ \A k \in DOMAIN cdTxs :
              LET t == cdTxs[k]
              IN IF t.contactId # Undefined
                 THEN ShownUnder(t) =
                          {i \in DOMAIN cdContacts :
                              cdContacts[i].id = t.contactId}
                 ELSE IF NameMatches(t) = {}
                      THEN ShownUnder(t) = {}
                      ELSE /\ Cardinality(ShownUnder(t)) = 1
                           /\ ShownUnder(t) \subseteq NameMatches(t)
        /\ \A i \in DOMAIN cdContacts :
              LET data == cdOut[cdContacts[i].id]
              IN /\ data.receivable =
                       SumRemaining(data.txs, {"credit_receivable",
                                               "loan_receivable"})
                 /\ data.payable =
                       SumRemaining(data.txs, {"credit_payable",
                                               "loan_payable"})

\* a debt named "ANN" without contactId is listed under the contact "ann",
\* and a debt whose contactId no contact has is listed under nobody
C19_Witness ==
    /\ cdPc = "done"
    /\ Len(cdTxs) = 2
    /\ cdContacts # <<>>
    /\ cdContacts[1].name = "ann"
    /\ cdTxs[1].contactId = Undefined /\ cdTxs[1].contact = "ANN"
    /\ cdTxs[1].type = "credit_receivable"
    /\ ShownUnder(cdTxs[1]) = {1}
    /\ cdOut[1].receivable = 1
    /\ cdTxs[2].contactId = GoneContactId /\ cdTxs[2].contact = "ANN"
    /\ ShownUnder(cdTxs[2]) = {}

----------------------------------------------------------------------------
(* Accounts that share a browser (UserSpec) *)

\* C20: what MainApp does for the logged-in account does not depend on what
\* another account did in the same browser before: MainApp takes the initial
\* cash setup as done only when the logged-in account itself completed or
\* skipped it, so an account with no transactions that never saw the setup
\* is still offered it.
C20_SetupIsPerUser ==
    (user # Null /\ hasInitialCash) => user \in setupBy

----------------------------------------------------------------------------
(* Ledger totals of the list MainApp holds (Spec) *)

\* the list without the debt at position i
WithoutAt(txs, i) == SubSeq(txs, 1, i - 1) \o SubSeq(txs, i + 1, Len(txs))

\* C21: Total Receivables and Total Payables are sums of remaining amounts:
\* a fully settled debt contributes 0 to them, and a partially paid debt
\* contributes less than its original amount.
C21_TotalsAreRemaining ==
    \A i \in DOMAIN transactions :
        LET d == transactions[i]
        IN d.type \in DebtTypes =>
              /\ d.status = "settled" =>
                     totals(transactions) = totals(WithoutAt(transactions, i))
              /\ d.status = "partial" => RemainingUsed(d) < d.amount

----------------------------------------------------------------------------
(* The Update Cash panel (CashSpec) *)

\* C22: when handleTotalCashUpdate(A) completes successfully the recomputed
\* cash balance equals A and bank, credit and loan are unchanged; it creates
\* one cash transaction of category adjustment with amount |A - cash|, an
\* income when A > cash and an expense when A < cash, and none when A = cash.
C22_TotalCashReconciled ==
    [][/\ \A s \in Slots :
             TotalCashUpdateDone(s) =>
                 /\ balances'.cash = ops[s].actualCash
                 /\ balances'.bank = balances.bank
                 /\ balances'.credit = balances.credit
                 /\ balances'.loan = balances.loan
       /\ \A s \in Slots :
             TotalCashServe(s) =>
                 LET t == srvTxs'[Len(srvTxs')]
                 IN /\ Len(srvTxs') = Len(srvTxs) + 1
                    /\ t.account = "cash"
                    /\ t.category = "adjustment"
                    /\ t.amount > 0
       /\ \A a \in CashInputs :
             (TotalCashUpdateStart(a) /\ a = balances.cash) =>
                 UNCHANGED <<ops, srvTxs, transactions>>]_vars

\* the transaction a completing cash handler prepends changes the cash
\* balance by its amount
CashChange(t) == IF t.type = "income" THEN t.amount ELSE 0 - t.amount

\* C23: neither the initial cash setup nor a total-cash adjustment counts as
\* today's cash flow: when handleInitialCashSetup or handleTotalCashUpdate
\* completes, todayCash is what it was before, while the cash balance
\* changes by the recorded amount.
C23_CashSetupNotTodaysFlow ==
    [][\A s \in Slots :
          (TotalCashUpdateDone(s) \/ InitialCashSetupDone(s)) =>
              /\ todayCash(transactions') = todayCash(transactions)
              /\ balances'.cash =
                     balances.cash + CashChange(ops[s].saved[1])]_vars

C23_Witness ==
    /\ last.act = "TotalCashUpdateDone"
    /\ todayCash(transactions).income > 0
    /\ \E i \in DOMAIN transactions :
           transactions[i].category = "initial_balance"

\* C26: the list MainApp holds never contains two entries with the same id,
\* however the cash handlers, which prepend the created transaction, are
\* interleaved with full refetches; no transaction is counted twice in the
\* balances.
C26_NoDuplicateIds ==
    \A i, j \in DOMAIN transactions :
        i # j => transactions[i].id # transactions[j].id

----------------------------------------------------------------------------
(* confirmDraft (Spec) *)

\* C27: whenever confirmDraft reports success for a draft, which it does when
\* its refetch has returned, applied or failed, that draft is no longer in
\* pendingDrafts and the created transaction is in the transaction list.
C27_SyncedMeansApplied ==
    [][\A s \in Slots :
          ((FetchDone(s) \/ FetchFail(s)) /\ ops[s].kind = "confirm") =>
              /\ ~InPendingDrafts(pendingDrafts', ops[s].id)
              /\ \E j \in DOMAIN transactions' :
                     transactions'[j].id = ops[s].saved[1].id]_vars

\* C28: for each draft the client has at most one confirm request under way:
\* invoking confirmDraft again for the same draft before the first
\* invocation has finished sends no second confirm request.
C28_OneConfirmPerDraft ==
    \A s, t \in Slots :
        (ops[s].kind = "confirm" /\ ops[t].kind = "confirm"
         /\ ops[s].id = ops[t].id) => s = t

----------------------------------------------------------------------------
(* useWakeWord (WakeSpec, WakeLiveSpec) *)

\* C25: while enabled is false no recognition is started or running: the
\* active recognition was stopped by the change and neither a restart timer
\* nor an end or error callback of a stopped recognition starts a new one;
\* and at most one recognition is started or running at any time.
C25_DisabledMeansSilent ==
    /\ ~enabled => \A r \in RecIds : ~Live(r)
    /\ \A r, q \in RecIds : (Live(r) /\ Live(q)) => r = q

\* C24: while the listener stays enabled and supported, whenever no
\* recognition is started or running (the last one ended or failed) and
\* another recognition can still be created, a new recognition is
\* eventually started.
C24_AutoRestart ==
    (/\ enabled
     /\ isSupported
     /\ Len(recognitions) < MaxRecs
     /\ \A r \in RecIds : ~Live(r))
        ~> (~enabled \/ \E r \in RecIds : Live(r))

----------------------------------------------------------------------------
(* AuthContext (AuthSpec) *)

\* C29: isAuthenticated is true only if an access token is stored: after
\* logout the user stays unauthenticated until a later login, also when a
\* request of the auth context was in flight at the time of the logout.
C29_AuthenticatedHasToken ==
    user # Null => localStorage["vantrack_token"] # Null

====
